---- MODULE Spec2Model ----
(***************************************************************************)
(* Hybrid retrieval, rank fusion and query routing of the RAG-js service:  *)
(* HybridSearchEngine / BM25Retriever / EnsembleRetriever                   *)
(* (src/src/hybridSearchEngine.js), VectorStore (src/src/vectorStore.js),  *)
(* QueryEngine (src/src/queryEngine.js), QuestionClassifier                *)
(* (src/unnamed/part_002) and the request middleware of the server         *)
(* (src/unnamed/part_000).                                                 *)
(*                                                                         *)
(* Numbers.  Weights are carried in tenths (0.3 is 3).  A reciprocal-rank  *)
(* term weight/(60+rank) is carried as the integer                         *)
(* weightTenths * (RRFScale \div (60+rank)), where RRFScale is a common    *)
(* multiple of every denominator 60+rank that can occur, so sums and       *)
(* comparisons of fused scores are exact.                                  *)
(***************************************************************************)
EXTENDS Integers, Sequences, FiniteSets, TLC

VARIABLES
    vs,        \* the VectorStore instance (documentsCount, isInitialized, ...)
    faiss,     \* the FaissStore objects ever created: id -> sequence of docs
    engine,    \* the HybridSearchEngine followed: its owner and the object's fields
    last,      \* the last completed call: operation, arguments, outcome
    fz,        \* rank fusion harness: the two input lists, the weights, the output
    rt,        \* router harness: the request and the response produced for it
    calls      \* the search calls in flight on the engine, suspended at an await

vars == <<vs, faiss, engine, last, fz, rt, calls>>

(***************************************************************************)
(* Bounds                                                                  *)
(***************************************************************************)
MaxLen == 3        \* longest ranked list handed to the fusion
MaxStore == 3      \* most real chunks one FaissStore object holds
MaxStores == 2     \* most FaissStore objects created (initialize, then clears)

(***************************************************************************)
(* Generic helpers                                                         *)
(***************************************************************************)
Min(a, b) == IF a < b THEN a ELSE b

Range(s) == {s[i] : i \in 1..Len(s)}

Take(s, n) == SubSeq(s, 1, Min(n, Len(s)))

RECURSIVE SeqsUpTo(_, _)
SeqsUpTo(S, n) ==
    IF n = 0 THEN {<<>>}
    ELSE LET shorter == SeqsUpTo(S, n - 1)
         IN shorter \cup {Append(s, x) : s \in {t \in shorter : Len(t) = n - 1}, x \in S}

RECURSIVE Gcd(_, _)
Gcd(a, b) == IF b = 0 THEN a ELSE Gcd(b, a % b)

RECURSIVE LcmUpTo(_, _)
LcmUpTo(base, n) ==
    IF n = 0 THEN 1
    ELSE LET m == LcmUpTo(base, n - 1)
         IN (m \div Gcd(m, base + n)) * (base + n)

(***************************************************************************)
(* Documents.  metadata.source = "", metadata.type = "" and                *)
(* metadata.chunkIndex = NoIndex stand for a missing (undefined) field.    *)
(***************************************************************************)
NoIndex == -1

Doc(src, idx, terms) ==
    [content |-> terms, metadata |-> [source |-> src, chunkIndex |-> idx, type |-> ""]]

\* what reading a property that an object does not have gives
Undefined == [undefined |-> TRUE]

\* a value that is no string (a number in a JSON body or in a chunk)
NotAString == <<"<number>">>

\* {}: a metadata object with no field
EmptyMetadata == [source |-> "", chunkIndex |-> NoIndex, type |-> ""]

DocA0 == Doc("docA", 0, <<"apples", "red">>)
DocA1 == Doc("docA", 1, <<"bananas", "yellow">>)
DocB0 == Doc("docB", 0, <<"apples", "bananas", "apples">>)

\* vectorStore.js:44-48, the document a fresh FaissStore is created with
DummyDoc ==
    [content |-> <<"dummy">>,
     metadata |-> [source |-> "init", chunkIndex |-> NoIndex, type |-> "dummy"]]

\* doc.metadata.type !== 'dummy'
IsDummy(doc) == doc.metadata.type = "dummy"

RealDocs == {DocA0, DocA1, DocB0}

Key(doc) == <<doc.metadata.source, doc.metadata.chunkIndex>>

(***************************************************************************)
(* Reciprocal rank fusion                                                  *)
(***************************************************************************)
RRF_K == 60

RRFScale == LcmUpTo(RRF_K, MaxLen + 1)

\* variant: the term with the rank counted one too far
RRFTermRankZero(weight, index) == weight * (RRFScale \div (RRF_K + index + 2))

\* weight / (k + index + 1), index 0-based as in the source
RRFTerm(weight, index) == weight * (RRFScale \div (RRF_K + index + 1))

\* variant: an identity that leaves the chunk index out
getDocumentIdNoChunk(result) ==
    <<IF result.metadata.source = "" THEN "unknown" ELSE result.metadata.source, 0>>

\* `${metadata.source || 'unknown'}_${metadata.chunkIndex || 0}`
getDocumentId(result) ==
    LET metadata == IF result.metadata = Undefined THEN EmptyMetadata ELSE result.metadata
    IN <<IF metadata.source = "" THEN "unknown" ELSE metadata.source,
         IF metadata.chunkIndex = NoIndex THEN 0 ELSE metadata.chunkIndex>>

\* position of the entry of a Map (kept in insertion order) with this key, 0 if none
MapIndex(map, docId) ==
    IF \E i \in 1..Len(map) : map[i].docId = docId
    THEN CHOOSE i \in 1..Len(map) : map[i].docId = docId
    ELSE 0

\* variant: an insertion that puts an element before the earlier ones of equal score
RECURSIVE InsertDescTiesFirst(_, _, _)
InsertDescTiesFirst(sorted, j, keys) ==
    IF sorted = <<>> THEN <<j>>
    ELSE IF keys[j] >= keys[sorted[Len(sorted)]]
         THEN Append(InsertDescTiesFirst(SubSeq(sorted, 1, Len(sorted) - 1), j, keys),
                     sorted[Len(sorted)])
         ELSE Append(sorted, j)

\* Array.prototype.sort((a, b) => b.score - a.score) as the permutation it
\* applies: keys[i] is the score of element i; stable, descending
RECURSIVE InsertDesc(_, _, _)
InsertDesc(sorted, j, keys) ==
    IF sorted = <<>> THEN <<j>>
    ELSE IF keys[j] > keys[sorted[Len(sorted)]]
         THEN Append(InsertDesc(SubSeq(sorted, 1, Len(sorted) - 1), j, keys), sorted[Len(sorted)])
         ELSE Append(sorted, j)

RECURSIVE SortPerm(_, _)
SortPerm(keys, n) ==
    IF n = 0 THEN <<>>
    ELSE InsertDesc(SortPerm(keys, n - 1), n, keys)

SortDesc(s) ==
    LET perm == SortPerm([i \in 1..Len(s) |-> s[i].fusedScore], Len(s))
    IN [i \in 1..Len(s) |-> s[perm[i]]]

\* fuseResults, the keywordResults.forEach callback
FuseKeywordStep(map, result, index, keywordWeight) ==
    LET docId == getDocumentId(result)
        rrfScore == RRFTerm(keywordWeight, index)
        pos == MapIndex(map, docId)
    IN IF pos > 0
       THEN [map EXCEPT ![pos].fusedScore = @ + rrfScore,
                        ![pos].keywordRank = index + 1]
       ELSE Append(map, [docId |-> docId, content |-> result.content,
                         metadata |-> result.metadata, fusedScore |-> rrfScore,
                         keywordRank |-> index + 1, semanticRank |-> 0])

\* variant: a semantic pass that overwrites the keyword score instead of adding to it
FuseSemanticStepOverwrite(map, result, index, semanticWeight) ==
    LET docId == getDocumentId(result)
        rrfScore == RRFTerm(semanticWeight, index)
        pos == MapIndex(map, docId)
    IN IF pos > 0
       THEN [map EXCEPT ![pos].fusedScore = rrfScore,
                        ![pos].semanticRank = index + 1]
       ELSE Append(map, [docId |-> docId, content |-> result.content,
                         metadata |-> result.metadata, fusedScore |-> rrfScore,
                         keywordRank |-> 0, semanticRank |-> index + 1])

\* fuseResults, the semanticResults.forEach callback
FuseSemanticStep(map, result, index, semanticWeight) ==
    LET docId == getDocumentId(result)
        rrfScore == RRFTerm(semanticWeight, index)
        pos == MapIndex(map, docId)
    IN IF pos > 0
       THEN [map EXCEPT ![pos].fusedScore = @ + rrfScore,
                        ![pos].semanticRank = index + 1]
       ELSE Append(map, [docId |-> docId, content |-> result.content,
                         metadata |-> result.metadata, fusedScore |-> rrfScore,
                         keywordRank |-> 0, semanticRank |-> index + 1])

RECURSIVE FuseKeywordList(_, _, _, _)
FuseKeywordList(map, results, i, w) ==
    IF i > Len(results) THEN map
    ELSE FuseKeywordList(FuseKeywordStep(map, results[i], i - 1, w), results, i + 1, w)

RECURSIVE FuseSemanticList(_, _, _, _)
FuseSemanticList(map, results, i, w) ==
    IF i > Len(results) THEN map
    ELSE FuseSemanticList(FuseSemanticStep(map, results[i], i - 1, w), results, i + 1, w)

\* HybridSearchEngine.fuseResults; rank 0 stands for null
fuseResults(keywordResults, semanticResults, keywordWeight, semanticWeight) ==
    LET afterKeyword == FuseKeywordList(<<>>, keywordResults, 1, keywordWeight)
        resultMap == FuseSemanticList(afterKeyword, semanticResults, 1, semanticWeight)
        sorted == SortDesc(resultMap)
    IN [i \in 1..Len(sorted) |->
          [content |-> sorted[i].content, metadata |-> sorted[i].metadata,
           score |-> sorted[i].fusedScore, keywordRank |-> sorted[i].keywordRank,
           semanticRank |-> sorted[i].semanticRank, searchType |-> "hybrid"]]

\* variant: a chunk already in the map keeps the score of its first list
EnsembleStepKeepFirst(map, doc, rank, weight) ==
    LET docId == getDocumentId(doc)
        rrfScore == RRFTerm(weight, rank)
        pos == MapIndex(map, docId)
    IN IF pos > 0
       THEN map
       ELSE Append(map, [docId |-> docId, doc |-> doc, fusedScore |-> rrfScore])

EnsembleStep(map, doc, rank, weight) ==
    LET docId == getDocumentId(doc)
        rrfScore == RRFTerm(weight, rank)
        pos == MapIndex(map, docId)
    IN IF pos > 0
       THEN [map EXCEPT ![pos].fusedScore = @ + rrfScore]
       ELSE Append(map, [docId |-> docId, doc |-> doc, fusedScore |-> rrfScore])

RECURSIVE EnsembleList(_, _, _, _)
EnsembleList(map, results, i, w) ==
    IF i > Len(results) THEN map
    ELSE EnsembleList(EnsembleStep(map, results[i], i - 1, w), results, i + 1, w)

RECURSIVE EnsembleAll(_, _, _, _)
EnsembleAll(map, allResults, r, weights) ==
    IF r > Len(allResults) THEN map
    ELSE EnsembleAll(EnsembleList(map, allResults[r], 1, weights[r]), allResults, r + 1, weights)

\* the sorted Array.from(resultMap.values()) of EnsembleRetriever, scores kept
EnsembleScored(allResults, weights) == SortDesc(EnsembleAll(<<>>, allResults, 1, weights))

\* EnsembleRetriever._getRelevantDocuments once every retriever has answered
EnsembleFuse(allResults, weights) ==
    LET sorted == EnsembleScored(allResults, weights)
    IN [i \in 1..Len(sorted) |-> sorted[i].doc]

(***************************************************************************)
(* Rank fusion harness: the two fusions applied to bounded inputs          *)
(***************************************************************************)
\* (keywordWeight, semanticWeight) in tenths; <<3, 7>> is the default 0.3 / 0.7
FuseWeights == {<<3, 7>>, <<7, 3>>, <<10, 0>>}

FuseKeywordLists == SeqsUpTo(RealDocs, MaxLen)

FuseSemanticLists == SeqsUpTo(RealDocs \cup {DummyDoc}, MaxLen)

FzIdle ==
    [keyword |-> <<>>, semantic |-> <<>>, keywordWeight |-> 3, semanticWeight |-> 7,
     fusedDone |-> FALSE, fused |-> <<>>, ensembleDone |-> FALSE, ensemble |-> <<>>]

FzInputs ==
    {[FzIdle EXCEPT !.keyword = k, !.semantic = s,
                    !.keywordWeight = w[1], !.semanticWeight = w[2]] :
        k \in FuseKeywordLists, s \in FuseSemanticLists, w \in FuseWeights}

\* a search result as keywordSearch / semanticSearch hand it to fuseResults
AsResult(doc) == [content |-> doc.content, metadata |-> doc.metadata]

FuseResultsCall ==
    /\ ~fz.fusedDone
    /\ fz' = [fz EXCEPT !.fusedDone = TRUE,
                        !.fused = fuseResults([i \in 1..Len(fz.keyword) |-> AsResult(fz.keyword[i])],
                                              [i \in 1..Len(fz.semantic) |-> AsResult(fz.semantic[i])],
                                              fz.keywordWeight, fz.semanticWeight)]
    /\ UNCHANGED <<vs, faiss, engine, last, rt, calls>>

EnsembleCall ==
    /\ ~fz.ensembleDone
    /\ fz' = [fz EXCEPT !.ensembleDone = TRUE,
                        !.ensemble = EnsembleScored(<<fz.keyword, fz.semantic>>,
                                                    <<fz.keywordWeight, fz.semanticWeight>>)]
    /\ UNCHANGED <<vs, faiss, engine, last, rt, calls>>

(***************************************************************************)
(* BM25Retriever: TF-IDF keyword ranking (natural.TfIdf), scores in        *)
(* thousandths                                                             *)
(***************************************************************************)
\* raw query tokens; "?" and "!" are punctuation
Lower(tok) ==
    CASE tok = "Apples" -> "apples"
      [] tok = "BANANAS" -> "bananas"
      [] OTHER -> tok

IsPunctuation(tok) == tok \in {"?", "!"}

\* _preprocessText followed by split(' ').filter(term => term.length > 0)
RECURSIVE QueryTerms(_)
QueryTerms(raw) ==
    IF raw = <<>> THEN <<>>
    ELSE IF IsPunctuation(raw[1]) THEN QueryTerms(Tail(raw))
         ELSE <<Lower(raw[1])>> \o QueryTerms(Tail(raw))

\* 1000 * ln(n)
LnMilli(n) ==
    CASE n = 1 -> 0 [] n = 2 -> 693 [] n = 3 -> 1099 [] n = 4 -> 1386
      [] n = 5 -> 1609 [] n = 6 -> 1792 [] n = 7 -> 1946 [] OTHER -> 2079

\* BM25Retriever._buildIndex, the text indexed for a document:
\* _preprocessText(doc.pageContent || doc.content || '')
IndexedText(doc) == IF doc.content = NotAString THEN <<>> ELSE QueryTerms(doc.content)

TermCount(term, content) == Cardinality({i \in 1..Len(content) : content[i] = term})

DocFreq(term, docs) == Cardinality({i \in 1..Len(docs) : TermCount(term, IndexedText(docs[i])) > 0})

\* natural.TfIdf.idf: 1 + ln(N / (1 + docsWithTerm))
Idf(term, docs) == 1000 + LnMilli(Len(docs)) - LnMilli(1 + DocFreq(term, docs))

\* this.tfidf.tfidf(term, i)
tfidf(term, i, docs) == TermCount(term, IndexedText(docs[i])) * Idf(term, docs)

RECURSIVE Bm25Score(_, _, _)
Bm25Score(queryTerms, i, docs) ==
    IF queryTerms = <<>> THEN 0
    ELSE tfidf(queryTerms[1], i, docs) + Bm25Score(Tail(queryTerms), i, docs)

\* variant: every document is kept, whatever its score
RECURSIVE Bm25HitsAnyScore(_, _, _)
Bm25HitsAnyScore(queryTerms, docs, i) ==
    IF i > Len(docs) THEN <<>>
    ELSE <<i>> \o Bm25HitsAnyScore(queryTerms, docs, i + 1)

RECURSIVE Bm25Hits(_, _, _)
Bm25Hits(queryTerms, docs, i) ==
    IF i > Len(docs) THEN <<>>
    ELSE (IF Bm25Score(queryTerms, i, docs) > 0 THEN <<i>> ELSE <<>>)
         \o Bm25Hits(queryTerms, docs, i + 1)

\* BM25Retriever._getRelevantDocuments on a retriever [documents, k]
Bm25GetRelevantDocuments(retriever, query) ==
    LET queryTerms == QueryTerms(query)
        docs == retriever.documents
        scores == Bm25Hits(queryTerms, docs, 1)
        perm == SortPerm([j \in 1..Len(scores) |-> Bm25Score(queryTerms, scores[j], docs)],
                         Len(scores))
        n == Min(retriever.k, Len(scores))
    IN IF queryTerms = <<>> THEN <<>>
       ELSE [j \in 1..n |-> docs[scores[perm[j]]]]

(***************************************************************************)
(* The semantic oracle.  A store reference is 0 for undefined/null, Wrapper*)
(* for the VectorStore instance, and n > 0 for the FaissStore object n.    *)
(* OracleModes are the ways the embedding search behind a FaissStore may   *)
(* answer one call: fail, or rank the store's documents in one of two      *)
(* orders.                                                                 *)
(***************************************************************************)
Wrapper == -1

OracleModes == {"throw", "fwd", "rev"}

Reverse(s) == [i \in 1..Len(s) |-> s[Len(s) + 1 - i]]

Rational(n, d) == [num |-> n, den |-> d]

\* FaissStore.similaritySearchWithScore(query, k): the k nearest documents
FaissNearest(contents, k, mode) ==
    Take(IF mode = "rev" THEN Reverse(contents) ELSE contents, k)

Threw == [threw |-> TRUE, results |-> <<>>]

Returned(results) == [threw |-> FALSE, results |-> results]

\* VectorStore.similaritySearch(query, k)
VectorStoreSimilaritySearch(v, f, k, mode) ==
    IF ~v.isInitialized \/ v.vectorStore = 0 THEN Threw
    ELSE IF v.documentsCount = 0 THEN Returned(<<>>)
    ELSE IF mode = "throw" THEN Threw
    ELSE LET found == FaissNearest(f[v.vectorStore], k, mode)
             scored == [i \in 1..Len(found) |->
                          [content |-> found[i].content, metadata |-> found[i].metadata,
                           score |-> Rational(90 - 20 * (i - 1), 100)]]
         IN Returned(SelectSeq(scored, LAMBDA r : ~IsDummy(r)))

\* <store>.similaritySearch(query, k) as HybridSearchEngine.semanticSearch calls it
SimilaritySearch(ref, v, f, k, mode) ==
    IF ref = 0 THEN Threw
    ELSE IF ref = Wrapper THEN VectorStoreSimilaritySearch(v, f, k, mode)
    ELSE IF mode = "throw" THEN Threw
    ELSE LET found == FaissNearest(f[ref], k, mode)
         IN Returned([i \in 1..Len(found) |->
                        [content |-> found[i].content, metadata |-> found[i].metadata,
                         score |-> Rational(0, 1)]])

\* vectorStore.asRetriever().getRelevantDocuments(query): k = 4 by default
VectorRetrieverGet(ref, f, mode) ==
    IF mode = "throw" THEN Threw
    ELSE Returned(FaissNearest(f[ref], 4, mode))

\* only a FaissStore has asRetriever; the VectorStore wrapper and undefined do not
HasAsRetriever(ref) == ref > 0

(***************************************************************************)
(* HybridSearchEngine.  A BM25Retriever object is [present, documents, k]. *)
(* The EnsembleRetriever holds a reference to the BM25Retriever it was     *)
(* built with: ownBm25 = FALSE while that is the object in                 *)
(* this.bm25Retriever, and TRUE (object kept in .bm25) once                *)
(* this.bm25Retriever has been replaced by another object.                 *)
(***************************************************************************)
NoBm25 == [present |-> FALSE, documents |-> <<>>, k |-> 0]

NoEnsemble ==
    [present |-> FALSE, ownBm25 |-> FALSE, bm25 |-> NoBm25, vector |-> 0, weights |-> <<0, 0>>]

\* constructor(vectorStore)
NewEngine(vectorStore) ==
    [vectorStore |-> vectorStore, bm25Retriever |-> NoBm25,
     ensembleRetriever |-> NoEnsemble, documents |-> <<>>, isIndexed |-> FALSE]

NewEnsemble(vector, weights) ==
    [present |-> TRUE, ownBm25 |-> FALSE, bm25 |-> NoBm25, vector |-> vector, weights |-> weights]

\* the BM25Retriever object the ensemble calls
EnsembleBm25(eng) ==
    IF eng.ensembleRetriever.ownBm25 THEN eng.ensembleRetriever.bm25 ELSE eng.bm25Retriever

\* variant: isIndexed is set before the vector retriever is asked for
buildIndexIndexedFirst(eng, documents, vectorStore) ==
    LET stored == [eng EXCEPT
                     !.documents = documents,
                     !.vectorStore = vectorStore,
                     !.isIndexed = TRUE,
                     !.bm25Retriever = [present |-> TRUE, documents |-> documents, k |-> 10],
                     !.ensembleRetriever =
                         IF @.present /\ ~@.ownBm25
                         THEN [@ EXCEPT !.ownBm25 = TRUE, !.bm25 = eng.bm25Retriever]
                         ELSE @]
    IN IF ~HasAsRetriever(vectorStore)
       THEN [threw |-> TRUE, engine |-> stored]
       ELSE [threw |-> FALSE,
             engine |-> [stored EXCEPT !.ensembleRetriever = NewEnsemble(vectorStore, <<3, 7>>)]]

\* buildIndex(documents, vectorStore): the assignments up to the first throw
buildIndex(eng, documents, vectorStore) ==
    LET stored == [eng EXCEPT
                     !.documents = documents,
                     !.vectorStore = vectorStore,
                     !.bm25Retriever = [present |-> TRUE, documents |-> documents, k |-> 10],
                     !.ensembleRetriever =
                         IF @.present /\ ~@.ownBm25
                         THEN [@ EXCEPT !.ownBm25 = TRUE, !.bm25 = eng.bm25Retriever]
                         ELSE @]
    IN IF ~HasAsRetriever(vectorStore)
       THEN [threw |-> TRUE, engine |-> stored]
       ELSE [threw |-> FALSE,
             engine |-> [stored EXCEPT !.ensembleRetriever = NewEnsemble(vectorStore, <<3, 7>>),
                                       !.isIndexed = TRUE]]

\* results.map((doc, index) => ({..., score: 1.0 / (index + 1), searchType}))
RankScored(docs, searchType) ==
    [i \in 1..Len(docs) |->
       [content |-> docs[i].content, metadata |-> docs[i].metadata,
        score |-> Rational(1, i), searchType |-> searchType]]

Tagged(results, searchType) ==
    [i \in 1..Len(results) |->
       [content |-> results[i].content, metadata |-> results[i].metadata,
        score |-> results[i].score, searchType |-> searchType]]

\* keywordSearch(query, k)
keywordSearch(eng, query, k) ==
    IF ~eng.isIndexed \/ ~eng.bm25Retriever.present
    THEN [engine |-> eng, threw |-> FALSE, results |-> <<>>]
    ELSE LET retriever == [eng.bm25Retriever EXCEPT !.k = k]
         IN [engine |-> [eng EXCEPT !.bm25Retriever = retriever],
             threw |-> FALSE,
             results |-> RankScored(Bm25GetRelevantDocuments(retriever, query), "keyword")]

\* variant: a semanticSearch that returns nothing until the index is built
semanticSearchGuarded(eng, v, f, query, k, mode) ==
    LET found == SimilaritySearch(eng.vectorStore, v, f, k, mode)
    IN [engine |-> eng, threw |-> FALSE,
        results |-> IF found.threw \/ ~eng.isIndexed THEN <<>>
                    ELSE Tagged(found.results, "semantic")]

\* semanticSearch(query, k)
semanticSearch(eng, v, f, query, k, mode) ==
    LET found == SimilaritySearch(eng.vectorStore, v, f, k, mode)
    IN [engine |-> eng, threw |-> FALSE,
        results |-> IF found.threw THEN <<>> ELSE Tagged(found.results, "semantic")]

\* the chunks and scores of a result list, without the searchType tag
Untagged(results) ==
    [i \in 1..Len(results) |->
       [content |-> results[i].content, metadata |-> results[i].metadata,
        score |-> results[i].score]]

\* the two fallbacks of hybridSearch:
\* (await this.semanticSearch(query, maxResults)).map(r => ({...r, searchType: 'hybrid'}))
SemanticFallback(eng, v, f, query, maxResults, mode, usedFallback, keyword) ==
    LET found == semanticSearch(eng, v, f, query, maxResults, mode).results
    IN [engine |-> eng, threw |-> FALSE, usedFallback |-> usedFallback, keyword |-> keyword,
        fused |-> FALSE, semantic |-> Untagged(found),
        results |-> Tagged(found, "hybrid")]

\* hybridSearch(query, {maxResults, keywordWeight, semanticWeight}); mode is
\* how the oracle answers the first call made to it, fallbackMode how it
\* answers the semanticSearch of the catch block after the ensemble threw;
\* keyword is the list the BM25 retriever gave the ensemble
hybridSearch(eng, v, f, query, maxResults, keywordWeight, semanticWeight, mode, fallbackMode) ==
    IF ~eng.isIndexed \/ ~eng.ensembleRetriever.present
    THEN SemanticFallback(eng, v, f, query, maxResults, mode, FALSE, <<>>)
    ELSE IF <<keywordWeight, semanticWeight>> # <<3, 7>> /\ ~HasAsRetriever(eng.vectorStore)
    THEN SemanticFallback(eng, v, f, query, maxResults, mode, FALSE, <<>>)
    ELSE LET reweighted ==
                 IF <<keywordWeight, semanticWeight>> # <<3, 7>>
                 THEN [eng EXCEPT !.ensembleRetriever =
                          NewEnsemble(eng.vectorStore, <<keywordWeight, semanticWeight>>)]
                 ELSE eng
             eng2 == [reweighted EXCEPT !.bm25Retriever.k = maxResults * 2]
             keyword == Bm25GetRelevantDocuments(EnsembleBm25(eng2), query)
             semantic == VectorRetrieverGet(eng2.ensembleRetriever.vector, f, mode)
         IN IF semantic.threw
            THEN SemanticFallback(eng2, v, f, query, maxResults, fallbackMode, TRUE, keyword)
            ELSE [engine |-> eng2, threw |-> FALSE, usedFallback |-> FALSE, keyword |-> keyword,
                  fused |-> TRUE, semantic |-> semantic.results,
                  results |-> RankScored(
                      Take(EnsembleFuse(<<keyword, semantic.results>>,
                                        eng2.ensembleRetriever.weights), maxResults),
                      "hybrid")]

\* rebuildIndex()
rebuildIndex(eng) ==
    IF Len(eng.documents) > 0 /\ eng.vectorStore # 0
    THEN buildIndex(eng, eng.documents, eng.vectorStore)
    ELSE [threw |-> FALSE, engine |-> eng]

\* getIndexStats()
getIndexStats(eng) ==
    [isIndexed |-> eng.isIndexed,
     documentCount |-> Len(eng.documents),
     hasEnsembleRetriever |-> eng.ensembleRetriever.present,
     hasBM25Retriever |-> eng.bm25Retriever.present]

(***************************************************************************)
(* VectorStore.  vs.vectorStore is the id of the current FaissStore object *)
(* (0 for null); vs.disk is the store directory: whether it exists, the    *)
(* documents saved in it and the documentsCount of its metadata.json.      *)
(* Outcomes say how the external calls of one operation end: "ok",         *)
(* "embedFails" (the embedding call throws) or "saveFails" (saving to disk *)
(* throws).                                                                *)
(***************************************************************************)
Outcomes == {"ok", "embedFails", "saveFails"}

NoDisk == [exists |-> FALSE, docs |-> <<>>, documentsCount |-> 0]

\* constructor()
NewVectorStore(disk) ==
    [vectorStore |-> 0, documentsCount |-> 0, isInitialized |-> FALSE, disk |-> disk]

RealCount(docs) == Cardinality({i \in 1..Len(docs) : ~IsDummy(docs[i])})

\* saveVectorStore(), when it succeeds
Saved(v, f) ==
    [v EXCEPT !.disk = [exists |-> TRUE, docs |-> f[v.vectorStore],
                        documentsCount |-> v.documentsCount]]

\* initialize(): never throws; returns the new VectorStore and FaissStore objects
initialize(v, f, outcome) ==
    IF v.disk.exists
    THEN [vs |-> [v EXCEPT !.vectorStore = Len(f) + 1,
                           !.documentsCount = v.disk.documentsCount,
                           !.isInitialized = TRUE],
          faiss |-> Append(f, v.disk.docs)]
    ELSE IF outcome = "embedFails"
    THEN [vs |-> [v EXCEPT !.isInitialized = FALSE], faiss |-> f]
    ELSE LET created == [v EXCEPT !.vectorStore = Len(f) + 1]
             f2 == Append(f, <<DummyDoc>>)
         IN IF outcome = "saveFails"
            THEN [vs |-> [created EXCEPT !.isInitialized = FALSE], faiss |-> f2]
            ELSE [vs |-> [Saved(created, f2) EXCEPT !.isInitialized = TRUE], faiss |-> f2]

\* addDocuments(documents): the VectorStore, its FaissStore objects and its engine after the call
addDocuments(v, f, eng, documents, outcome) ==
    IF ~v.isInitialized \/ v.vectorStore = 0 \/ Len(documents) = 0 \/ outcome = "embedFails"
    THEN [threw |-> TRUE, vs |-> v, faiss |-> f, engine |-> eng]
    ELSE LET f2 == [f EXCEPT ![v.vectorStore] = @ \o documents]
             built == buildIndex(eng, documents, v.vectorStore)
             counted == [v EXCEPT !.documentsCount = @ + Len(documents)]
         IN IF built.threw
            THEN [threw |-> TRUE, vs |-> v, faiss |-> f2, engine |-> built.engine]
            ELSE IF outcome = "saveFails"
            THEN [threw |-> TRUE, vs |-> counted, faiss |-> f2, engine |-> built.engine]
            ELSE [threw |-> FALSE, vs |-> Saved(counted, f2), faiss |-> f2, engine |-> built.engine]

\* clear(): deleteFails when fs.rmSync fails on each of the three attempts
clear(v, f, deleteFails, outcome) ==
    LET reset == [v EXCEPT !.documentsCount = 0, !.vectorStore = 0, !.isInitialized = FALSE,
                           !.disk = IF deleteFails THEN @ ELSE NoDisk]
    IN initialize(reset, f, outcome)

(***************************************************************************)
(* QuestionClassifier.  A text is a sequence of tokens: words, the blank   *)
(* " " and punctuation.  The Chinese literals of the source are written in *)
(* pinyin ("nihao", "zaijian", "xiexie", "nijiaoshenmemingzi", "nishishei").*)
(* NotAString is a question that is no string (a number in the JSON body). *)
(***************************************************************************)
LowerCase(tok) ==
    CASE tok \in {"Hello", "HELLO"} -> "hello"
      [] tok = "What" -> "what"
      [] tok = "Thank" -> "thank"
      [] OTHER -> tok

UpperCase(tok) ==
    CASE tok = "direct" -> "DIRECT"
      [] tok = "search" -> "SEARCH"
      [] tok = "Search" -> "SEARCH"
      [] tok = "indirectly" -> "INDIRECTLY"
      [] OTHER -> tok

IsBlank(tok) == tok \in {" ", "\n"}

\* String.prototype.trim
RECURSIVE TrimLeft(_)
TrimLeft(text) ==
    IF text # <<>> /\ IsBlank(text[1]) THEN TrimLeft(Tail(text)) ELSE text

Trim(text) == Reverse(TrimLeft(Reverse(TrimLeft(text))))

\* the alternatives of the four anchored greetingPatterns
GreetingPhrases ==
    {<<"hi">>, <<"hello">>, <<"hey">>, <<"nihao">>, <<"zaijian">>,
     <<"good", " ", "morning">>, <<"good", " ", "afternoon">>, <<"good", " ", "evening">>,
     <<"how", " ", "are", " ", "you">>, <<"how", " ", "do", " ", "you", " ", "do">>,
     <<"thanks">>, <<"thank", " ", "you">>, <<"xiexie">>}

\* the personalPatterns: the literals of each pattern, joined by .* in the source
PersonalPatterns ==
    {<<"what", "your", "name">>, <<"who", "are", "you">>, <<"nijiaoshenmemingzi">>,
     <<"nishishei">>, <<"what", "can", "you", "do">>, <<"tell", "about", "yourself">>}

\* the rest of /a.*b.*c/i after a was matched: . matches no line break
RECURSIVE MatchRest(_, _)
MatchRest(literals, text) ==
    IF literals = <<>> THEN TRUE
    ELSE IF text = <<>> THEN FALSE
    ELSE IF LowerCase(text[1]) = literals[1] /\ MatchRest(Tail(literals), Tail(text)) THEN TRUE
    ELSE IF text[1] = "\n" THEN FALSE
    ELSE MatchRest(literals, Tail(text))

\* /a.*b.*c/i.test(text): unanchored, the literals occur in this order
MatchesInOrder(literals, text) ==
    \E i \in 1..Len(text) :
        /\ LowerCase(text[i]) = literals[1]
        /\ MatchRest(Tail(literals), SubSeq(text, i + 1, Len(text)))

isLikelyGreeting(question) ==
    LET trimmed == Trim(question)
    IN [i \in 1..Len(trimmed) |-> LowerCase(trimmed[i])] \in GreetingPhrases

isPersonalQuestion(question) ==
    \E pattern \in PersonalPatterns : MatchesInOrder(pattern, question)

\* cleanedClassification.includes(word), word being DIRECT or SEARCH
Includes(cleaned, word) ==
    \E i \in 1..Len(cleaned) :
        \/ cleaned[i] = word
        \/ cleaned[i] = "INDIRECTLY" /\ word = "DIRECT"

\* what the classification chain does when invoked: throw, or return a text
ChainThrows == [threw |-> TRUE, text |-> <<>>]

ChainReturns(text) == [threw |-> FALSE, text |-> text]

\* variant: a classifyQuestion that takes an unclear reply for DIRECT
classifyQuestionDefaultDirect(question, chain) ==
    IF question = NotAString
    THEN [threw |-> TRUE, classification |-> "none", oracleCalls |-> 0]
    ELSE IF isLikelyGreeting(question) \/ isPersonalQuestion(question)
    THEN [threw |-> FALSE, classification |-> "DIRECT", oracleCalls |-> 0]
    ELSE IF chain.threw
    THEN [threw |-> FALSE, classification |-> "SEARCH", oracleCalls |-> 1]
    ELSE LET trimmed == Trim(chain.text)
             cleanedClassification == [i \in 1..Len(trimmed) |-> UpperCase(trimmed[i])]
         IN [threw |-> FALSE, oracleCalls |-> 1,
             classification |-> IF Includes(cleanedClassification, "SEARCH")
                                THEN "SEARCH" ELSE "DIRECT"]

\* variant: a classifyQuestion that asks the oracle before trying the patterns
classifyQuestionModelFirst(question, chain) ==
    IF question = NotAString
    THEN [threw |-> TRUE, classification |-> "none", oracleCalls |-> 0]
    ELSE IF chain.threw
    THEN [threw |-> FALSE, oracleCalls |-> 1,
          classification |-> IF isLikelyGreeting(question) \/ isPersonalQuestion(question)
                             THEN "DIRECT" ELSE "SEARCH"]
    ELSE LET trimmed == Trim(chain.text)
             cleanedClassification == [i \in 1..Len(trimmed) |-> UpperCase(trimmed[i])]
         IN [threw |-> FALSE, oracleCalls |-> 1,
             classification |-> IF Includes(cleanedClassification, "DIRECT") THEN "DIRECT"
                                ELSE IF isLikelyGreeting(question) \/ isPersonalQuestion(question)
                                THEN "DIRECT" ELSE "SEARCH"]

\* variant: a classifyQuestion that looks for SEARCH before it looks for DIRECT
classifyQuestionSearchFirst(question, chain) ==
    IF question = NotAString
    THEN [threw |-> TRUE, classification |-> "none", oracleCalls |-> 0]
    ELSE IF isLikelyGreeting(question) \/ isPersonalQuestion(question)
    THEN [threw |-> FALSE, classification |-> "DIRECT", oracleCalls |-> 0]
    ELSE IF chain.threw
    THEN [threw |-> FALSE, classification |-> "SEARCH", oracleCalls |-> 1]
    ELSE LET trimmed == Trim(chain.text)
             cleanedClassification == [i \in 1..Len(trimmed) |-> UpperCase(trimmed[i])]
         IN [threw |-> FALSE, oracleCalls |-> 1,
             classification |-> IF Includes(cleanedClassification, "SEARCH") THEN "SEARCH"
                                ELSE IF Includes(cleanedClassification, "DIRECT") THEN "DIRECT"
                                ELSE "SEARCH"]

\* classifyQuestion(question).  A question that is no string makes
\* question.trim() throw at the first pattern test and again in the catch block.
classifyQuestion(question, chain) ==
    IF question = NotAString
    THEN [threw |-> TRUE, classification |-> "none", oracleCalls |-> 0]
    ELSE IF isLikelyGreeting(question) \/ isPersonalQuestion(question)
    THEN [threw |-> FALSE, classification |-> "DIRECT", oracleCalls |-> 0]
    ELSE IF chain.threw
    THEN [threw |-> FALSE, classification |-> "SEARCH", oracleCalls |-> 1]
    ELSE LET trimmed == Trim(chain.text)
             cleanedClassification == [i \in 1..Len(trimmed) |-> UpperCase(trimmed[i])]
         IN [threw |-> FALSE, oracleCalls |-> 1,
             classification |-> IF Includes(cleanedClassification, "DIRECT") THEN "DIRECT"
                                ELSE IF Includes(cleanedClassification, "SEARCH") THEN "SEARCH"
                                ELSE "SEARCH"]


(***************************************************************************)
(* QueryEngine: contexts, sources and hybridQuery.  A property that a      *)
(* result does not have reads as Undefined; a context string is the        *)
(* sequence of its labelled blocks.                                        *)
(***************************************************************************)
JsNull == [null |-> TRUE]

\* result.metadata.<field> throws a TypeError when result.metadata is undefined
ReadsUndefinedMetadata(searchResults) ==
    \E i \in 1..Len(searchResults) : searchResults[i].metadata = Undefined

\* content.substring(0, 100) throws a TypeError when content is not a string
CallsSubstringOfNonString(searchResults) ==
    \E i \in 1..Len(searchResults) : searchResults[i].content = NotAString

\* result.metadata.source || 'Unknown'
SourceOrUnknown(result) ==
    IF result.metadata.source = "" THEN "Unknown" ELSE result.metadata.source

\* result.metadata.chunkIndex || 0
ChunkIndexOrZero(result) ==
    IF result.metadata.chunkIndex = NoIndex THEN 0 ELSE result.metadata.chunkIndex

\* getSearchInfo(result)
getSearchInfo(result) ==
    (IF "searchType" \in DOMAIN result /\ result.searchType # ""
     THEN <<<<"Type", result.searchType>>>> ELSE <<>>)
    \o (IF "keywordRank" \in DOMAIN result /\ result.keywordRank # 0
        THEN <<<<"Keyword Rank", result.keywordRank>>>> ELSE <<>>)
    \o (IF "semanticRank" \in DOMAIN result /\ result.semanticRank # 0
        THEN <<<<"Semantic Rank", result.semanticRank>>>> ELSE <<>>)

\* formatContext(searchResults)
formatContext(searchResults) ==
    IF ReadsUndefinedMetadata(searchResults) THEN [threw |-> TRUE, context |-> <<>>]
    ELSE [threw |-> FALSE,
          context |-> [i \in 1..Len(searchResults) |->
                         [document |-> i,
                          source |-> SourceOrUnknown(searchResults[i]),
                          chunk |-> ChunkIndexOrZero(searchResults[i]) + 1,
                          searchInfo |-> <<>>,
                          content |-> searchResults[i].content]]]

\* formatHybridContext(searchResults)
formatHybridContext(searchResults) ==
    IF ReadsUndefinedMetadata(searchResults) THEN [threw |-> TRUE, context |-> <<>>]
    ELSE [threw |-> FALSE,
          context |-> [i \in 1..Len(searchResults) |->
                         [document |-> i,
                          source |-> SourceOrUnknown(searchResults[i]),
                          chunk |-> ChunkIndexOrZero(searchResults[i]) + 1,
                          searchInfo |-> getSearchInfo(searchResults[i]),
                          content |-> searchResults[i].content]]]

\* result.metadata.fileType || 'unknown'
FileTypeOrUnknown(result) ==
    IF "fileType" \in DOMAIN result.metadata THEN result.metadata.fileType ELSE "unknown"

\* result.metadata.processedAt, "undefined" when the metadata has none
ProcessedAt(result) ==
    IF "processedAt" \in DOMAIN result.metadata THEN result.metadata.processedAt
    ELSE "undefined"

\* variant: a group that takes fileType and processedAt from its latest result
ExtractStepLatestWins(sourceMap, result) ==
    LET source == SourceOrUnknown(result)
        chunk == [chunkIndex |-> ChunkIndexOrZero(result) + 1, score |-> result.score,
                  content |-> result.content]
        pos == MapIndex([i \in 1..Len(sourceMap) |-> [docId |-> sourceMap[i].filename]], source)
    IN IF pos > 0
       THEN [sourceMap EXCEPT ![pos].chunks = Append(@, chunk),
                              ![pos].fileType = FileTypeOrUnknown(result),
                              ![pos].processedAt = ProcessedAt(result)]
       ELSE Append(sourceMap,
                   [filename |-> source, chunks |-> <<chunk>>,
                    fileType |-> FileTypeOrUnknown(result),
                    processedAt |-> ProcessedAt(result)])

\* extractSources, the searchResults.forEach callback on a Map kept in insertion order
ExtractStep(sourceMap, result) ==
    LET source == SourceOrUnknown(result)
        chunk == [chunkIndex |-> ChunkIndexOrZero(result) + 1, score |-> result.score,
                  content |-> result.content]
        pos == MapIndex([i \in 1..Len(sourceMap) |-> [docId |-> sourceMap[i].filename]], source)
    IN IF pos > 0
       THEN [sourceMap EXCEPT ![pos].chunks = Append(@, chunk)]
       ELSE Append(sourceMap,
                   [filename |-> source, chunks |-> <<chunk>>,
                    fileType |-> FileTypeOrUnknown(result),
                    processedAt |-> ProcessedAt(result)])

RECURSIVE ExtractList(_, _, _)
ExtractList(sourceMap, searchResults, i) ==
    IF i > Len(searchResults) THEN sourceMap
    ELSE ExtractList(ExtractStep(sourceMap, searchResults[i]), searchResults, i + 1)

\* variant: chunks left in the order in which they were pushed
SortChunksKeepOrder(chunks) == chunks

\* source.chunks.sort((a, b) => a.chunkIndex - b.chunkIndex)
SortChunks(chunks) ==
    LET perm == SortPerm([i \in 1..Len(chunks) |-> 0 - chunks[i].chunkIndex], Len(chunks))
    IN [i \in 1..Len(chunks) |-> chunks[perm[i]]]

\* extractSources(searchResults)
extractSources(searchResults) ==
    IF ReadsUndefinedMetadata(searchResults) \/ CallsSubstringOfNonString(searchResults)
    THEN [threw |-> TRUE, sources |-> <<>>]
    ELSE LET sourceMap == ExtractList(<<>>, searchResults, 1)
         IN [threw |-> FALSE,
             sources |-> [i \in 1..Len(sourceMap) |->
                            [sourceMap[i] EXCEPT !.chunks = SortChunks(@)]]]

\* the input variables of directPromptTemplate and of searchPromptTemplate
directPromptTemplate == {"conversationHistory", "question"}

searchPromptTemplate == {"conversationHistory", "context", "question"}

\* this.generalChain = this.directChain
generalChain == directPromptTemplate

NoPrompt == [called |-> FALSE, variables |-> {}, hasContext |-> FALSE, context |-> <<>>]

\* <chain>.invoke(values): the prompt the template renders for the model; a
\* value the template has no variable for does not reach it
ChainPrompt(template, hasContext, context) ==
    [called |-> TRUE, variables |-> template,
     hasContext |-> hasContext /\ "context" \in template,
     context |-> IF hasContext /\ "context" \in template THEN context ELSE <<>>]

\* result.score >= minScore, minScore = 0.01
AtLeastHybridMinScore(result) == result.score.num * 100 >= result.score.den

NoAnswer ==
    [threw |-> FALSE, retrieved |-> <<>>, finalResults |-> <<>>, prompt |-> NoPrompt,
     sources |-> <<>>, searchResults |-> <<>>, searchStats |-> Undefined]

SearchStats(totalResults, filteredResults, finalResults) ==
    [totalResults |-> totalResults, filteredResults |-> filteredResults,
     finalResults |-> finalResults]

\* formatQueryResponse(question, answer, searchType)
formatQueryResponse(answer) ==
    [sources |-> answer.sources,
     searchResults |-> answer.searchResults,
     searchStats |-> IF answer.searchStats = Undefined THEN JsNull ELSE answer.searchStats]

\* the body of a response that is not a formatQueryResponse object
NoBody == [sources |-> <<>>, searchResults |-> <<>>, searchStats |-> Undefined]

\* hybridQuery from the score filter on: the answer for the results retrieved
HybridQueryAnswer(searchResults, filteredResults, finalResults, context, sources, llmAnswer) ==
    LET found == [NoAnswer EXCEPT !.retrieved = searchResults]
    IN IF searchResults = <<>> THEN found
       ELSE IF filteredResults = <<>>
       THEN IF ~llmAnswer
            THEN [found EXCEPT !.threw = TRUE,
                               !.prompt = ChainPrompt(generalChain, FALSE, <<>>)]
            ELSE [found EXCEPT !.prompt = ChainPrompt(generalChain, FALSE, <<>>),
                               !.searchStats = SearchStats(Len(searchResults), 0, 0)]
       ELSE IF context.threw THEN [found EXCEPT !.threw = TRUE]
       ELSE IF ~llmAnswer \/ sources.threw
       THEN [found EXCEPT !.threw = TRUE, !.finalResults = finalResults,
                          !.prompt = ChainPrompt(generalChain, TRUE, context.context)]
       ELSE [found EXCEPT !.finalResults = finalResults,
                          !.prompt = ChainPrompt(generalChain, TRUE, context.context),
                          !.sources = sources.sources,
                          !.searchStats = SearchStats(Len(searchResults),
                                                      Len(filteredResults),
                                                      Len(finalResults))]

\* const context = this.formatHybridContext(finalResults); ...
\* const sources = this.extractSources(finalResults)
HybridFinal(searchResults, filteredResults, finalResults, llmAnswer) ==
    HybridQueryAnswer(searchResults, filteredResults, finalResults,
                 formatHybridContext(finalResults), extractSources(finalResults), llmAnswer)

\* const filteredResults = searchResults.filter(...);
\* const finalResults = filteredResults.slice(0, maxResults)
HybridFiltered(searchResults, filteredResults, maxResults, llmAnswer) ==
    HybridFinal(searchResults, filteredResults, Take(filteredResults, maxResults), llmAnswer)

HybridRetrieved(r, maxResults, llmAnswer) ==
    [engine |-> r.engine,
     answer |-> HybridFiltered(r.results, SelectSeq(r.results, AtLeastHybridMinScore),
                               maxResults, llmAnswer)]

\* QueryEngine.hybridQuery(question, {searchType: 'hybrid', maxResults}) with
\* includeScores left at its default; llmAnswer is whether the model call succeeds
hybridQuery(eng, v, f, question, maxResults, mode, llmAnswer) ==
    HybridRetrieved(hybridSearch(eng, v, f, question, maxResults * 2, 3, 7, mode, "none"),
                    maxResults, llmAnswer)

\* res.json(formatQueryResponse(question, answer, ...)), or status 500
Responded(r, answer) ==
    [r EXCEPT !.op = "hybridQuery", !.next = FALSE,
              !.retrievalCalls = @ + 1,
              !.searchResults = answer.retrieved,
              !.response = IF answer.threw THEN "error" ELSE "hybrid",
              !.answer = answer,
              !.body = IF answer.threw THEN NoBody ELSE formatQueryResponse(answer)]

(***************************************************************************)
(* QueryEngine and the classification middleware of the server.  llmDirect *)
(* and llmAnswer say whether the answering model succeeds when the direct  *)
(* chain, and then the general or search chain, is invoked.                *)
(***************************************************************************)
Questions ==
    {<<"Hello">>, <<" ", "HELLO", " ">>, <<"Hello", " ", "there">>,
     <<"What", " ", "is", " ", "your", " ", "name", "?">>,
     <<"name", " ", "your", " ", "what">>,
     <<"Apples", "?">>, NotAString}

ChainOutcomes ==
    {ChainThrows} \cup
    {ChainReturns(text) : text \in {<<"DIRECT">>, <<"SEARCH">>, <<" ", "search", "\n">>,
                                    <<"direct">>, <<"Search", " ", "DIRECT">>,
                                    <<"indirectly">>, <<"maybe">>, <<>>}}

RtIdle ==
    [op |-> "none", question |-> <<>>, chain |-> ChainThrows, forceSearchMode |-> FALSE,
     questionClassifier |-> TRUE, classification |-> "none", classifyThrew |-> FALSE,
     oracleCalls |-> 0, directCalled |-> FALSE, directThrew |-> FALSE,
     retrievalCalls |-> 0, next |-> FALSE, response |-> "none", searchResults |-> <<>>,
     answer |-> NoAnswer, body |-> NoBody]

\* result.score >= minScore, minScore = 0.1
AtLeastMinScore(result) == result.score.num * 10 >= result.score.den

\* QueryEngine.directQuery(question, {conversationHistory}).  The constructor
\* gives QueryEngine no documentsCount, so this.documentsCount > 0 is false
\* and the reference lookup is never made.
directQuery(question, llmDirect) ==
    IF llmDirect
    THEN [threw |-> FALSE, queryType |-> "direct", retrievalCalls |-> 0]
    ELSE [threw |-> TRUE, queryType |-> "none", retrievalCalls |-> 0]

\* the classification block shared by QueryEngine.query and the middleware:
\* classifyQuestion, and directQuery on DIRECT, inside one try
ClassifyAndTryDirect(r, question, chain, llmDirect) ==
    IF r.forceSearchMode \/ ~r.questionClassifier THEN r
    ELSE LET c == classifyQuestion(question, chain)
             direct == ~c.threw /\ c.classification = "DIRECT"
             d == directQuery(question, llmDirect)
         IN [r EXCEPT !.classification = c.classification,
                      !.classifyThrew = c.threw,
                      !.oracleCalls = c.oracleCalls,
                      !.directCalled = direct,
                      !.directThrew = direct /\ d.threw,
                      !.retrievalCalls = IF direct THEN d.retrievalCalls ELSE 0,
                      !.response = IF direct /\ ~d.threw THEN "direct" ELSE "none"]

\* QueryEngine.query(question, {forceSearchMode})
QueryEngineQuery(r, v, f, question, chain, llmDirect, llmAnswer, mode) ==
    LET c == ClassifyAndTryDirect(r, question, chain, llmDirect)
        found == VectorStoreSimilaritySearch(v, f, 4, mode)
        filteredResults == SelectSeq(found.results, AtLeastMinScore)
    IN IF c.response = "direct" THEN c
       ELSE IF found.threw
       THEN [c EXCEPT !.retrievalCalls = @ + 1, !.response = "error"]
       ELSE [c EXCEPT !.retrievalCalls = @ + 1,
                      !.searchResults = found.results,
                      !.response = IF ~llmAnswer THEN "error"
                                   ELSE IF filteredResults = <<>> THEN "general"
                                   ELSE "search"]

\* classifyAndHandleDirectQuery(req, res, next)
classifyAndHandleDirectQuery(r, question, chain, llmDirect) ==
    LET c == ClassifyAndTryDirect(r, question, chain, llmDirect)
    IN [c EXCEPT !.next = (c.response # "direct")]

(***************************************************************************)
(* Calls in flight.  keywordSearch and hybridSearch are async functions:   *)
(* each runs up to its first await, is suspended there, and is resumed     *)
(* later; other calls on the same engine run in between.  A call holds the *)
(* retriever object it invoked; buildIndex publishes new retriever objects *)
(* and leaves the old ones as they are.                                    *)
(***************************************************************************)
CallIds == {1, 2}

CallIdle ==
    [phase |-> "idle", op |-> "none", query |-> <<>>, k |-> 0,
     current |-> FALSE, retriever |-> NoBm25, ensemble |-> NoEnsemble, versions |-> {},
     keyword |-> <<>>, alone |-> <<>>, results |-> <<>>,
     documents |-> <<>>, store |-> 0, load |-> FALSE]

NoCalls == [c \in CallIds |-> CallIdle]

\* the BM25Retriever object a call holds: the engine's current one, as it is
\* now, or an object buildIndex has replaced since
HeldRetriever(call, eng) == IF call.current THEN eng.bm25Retriever ELSE call.retriever

\* variant: a retriever run that ranks with the index it holds but takes the
\* chunks from the engine's current documents
RetrieverRunFromEngineDocuments(call, eng) ==
    LET held == HeldRetriever(call, eng)
        picked == Bm25GetRelevantDocuments(held, call.query)
        position(doc) == CHOOSE i \in 1..Len(held.documents) : held.documents[i] = doc
    IN [j \in 1..Len(picked) |->
          IF position(picked[j]) <= Len(eng.documents)
          THEN eng.documents[position(picked[j])] ELSE picked[j]]

\* BM25Retriever._getRelevantDocuments(query) run for a call in flight: reads
\* this.documents, this.tfidf and this.k of the object the call holds
RetrieverRun(call, eng) == Bm25GetRelevantDocuments(HeldRetriever(call, eng), call.query)

\* keywordSearch(query, k) up to its await: the guard, this.bm25Retriever.k = k,
\* this.bm25Retriever.getRelevantDocuments(query)
KeywordSearchStart(eng, query, k) ==
    IF ~eng.isIndexed \/ ~eng.bm25Retriever.present
    THEN [engine |-> eng,
          call |-> [CallIdle EXCEPT !.phase = "done", !.op = "keywordSearch",
                                    !.query = query, !.k = k]]
    ELSE LET eng2 == [eng EXCEPT !.bm25Retriever.k = k]
         IN [engine |-> eng2,
             call |-> [CallIdle EXCEPT !.phase = "called", !.op = "keywordSearch",
                                       !.query = query, !.k = k, !.current = TRUE,
                                       !.versions = {eng2.bm25Retriever.documents},
                                       !.alone = keywordSearch(eng, query, k).results]]

\* hybridSearch(query, {maxResults}) with the default weights up to its await:
\* this.bm25Retriever.k = maxResults * 2, this.ensembleRetriever.getRelevantDocuments(query);
\* the call keeps the ensemble it invoked and, through it, that ensemble's BM25 retriever
HybridSearchStart(eng, query, maxResults) ==
    IF ~eng.isIndexed \/ ~eng.ensembleRetriever.present
    THEN [engine |-> eng,
          call |-> [CallIdle EXCEPT !.phase = "fallback", !.op = "hybridSearch",
                                    !.query = query, !.k = maxResults]]
    ELSE LET eng2 == [eng EXCEPT !.bm25Retriever.k = maxResults * 2]
             shared == ~eng2.ensembleRetriever.ownBm25
         IN [engine |-> eng2,
             call |-> [CallIdle EXCEPT !.phase = "called", !.op = "hybridSearch",
                                       !.query = query, !.k = maxResults,
                                       !.current = shared,
                                       !.retriever = EnsembleBm25(eng2),
                                       !.ensemble = eng2.ensembleRetriever,
                                       !.versions = {EnsembleBm25(eng2).documents}]]

\* what buildIndex does to a call in flight: the object it holds is no longer
\* the engine's
Superseded(call, eng, documents) ==
    IF call.phase \in {"called", "read"}
    THEN [call EXCEPT !.current = FALSE,
                      !.retriever = HeldRetriever(call, eng),
                      !.versions = @ \cup {documents}]
    ELSE call

(***************************************************************************)
(* State and operations.  The server holds two HybridSearchEngine objects  *)
(* that share no state: the one VectorStore creates and builds on upload   *)
(* (owner "vs") and the one QueryEngine creates and searches (owner "qe"). *)
(* The model follows one of them at a time; engine.owner says which.       *)
(***************************************************************************)
Owners == {"vs", "qe"}

\* vectorStore.js:24 new HybridSearchEngine(); queryEngine.js:17 new HybridSearchEngine(vectorStore)
InitEngines ==
    {[owner |-> "vs", obj |-> NewEngine(0)], [owner |-> "qe", obj |-> NewEngine(Wrapper)]}

Batches == {<<>>, <<DocA0, DocA1>>, <<DocB0>>}

Queries == {<<"Apples", "?">>, <<"kiwi">>}

SearchKs == {2, 10}

MaxResultsChoices == {1, 5}

SearchWeights == {<<3, 7>>, <<7, 3>>}

LastIdle ==
    [op |-> "none", query |-> <<>>, k |-> 0, weights |-> <<0, 0>>,
     indexed |-> FALSE, threw |-> FALSE, results |-> <<>>, mode |-> "none",
     fallbackMode |-> "none", keyword |-> <<>>, documents |-> <<>>,
     fused |-> FALSE, semantic |-> <<>>, stats |-> getIndexStats(NewEngine(0))]

\* The states of the VectorStore and of its engine in which the engine's own
\* operations are exercised: after construction, after initialize(), and
\* after two uploads, of two files or of the same file twice
Constructed ==
    [vs |-> NewVectorStore(NoDisk), faiss |-> <<>>, engine |-> NewEngine(0)]

Initialized ==
    LET r == initialize(Constructed.vs, Constructed.faiss, "ok")
    IN [vs |-> r.vs, faiss |-> r.faiss, engine |-> Constructed.engine]

Uploaded(from, documents) ==
    LET r == addDocuments(from.vs, from.faiss, from.engine, documents, "ok")
    IN [vs |-> r.vs, faiss |-> r.faiss, engine |-> r.engine]

StoreStates ==
    {Constructed, Initialized,
     Uploaded(Uploaded(Initialized, <<DocA0, DocA1>>), <<DocB0>>),
     Uploaded(Uploaded(Initialized, <<DocB0>>), <<DocB0>>)}

InitStore ==
    /\ vs = Constructed.vs
    /\ faiss = Constructed.faiss
    /\ engine \in InitEngines
    /\ last = LastIdle
    /\ fz = FzIdle
    /\ rt = RtIdle
    /\ calls = NoCalls

Init ==
    /\ \E st \in StoreStates, owner \in Owners :
          /\ vs = st.vs
          /\ faiss = st.faiss
          /\ engine = [owner |-> owner,
                       obj |-> IF owner = "vs" THEN st.engine ELSE NewEngine(Wrapper)]
    /\ last = LastIdle
    /\ fz = FzIdle
    /\ rt = RtIdle
    /\ calls = NoCalls

\* startServer(): await vectorStore.initialize()
Initialize(outcome) ==
    /\ ~vs.isInitialized
    /\ vs.vectorStore = 0
    /\ Len(faiss) < MaxStores
    /\ LET r == initialize(vs, faiss, outcome)
       IN /\ vs' = r.vs
          /\ faiss' = r.faiss
    /\ last' = [LastIdle EXCEPT !.op = "initialize"]
    /\ UNCHANGED <<engine, fz, rt, calls>>

AddDocuments(documents, outcome) ==
    /\ IF vs.vectorStore = 0 THEN TRUE
       ELSE RealCount(faiss[vs.vectorStore]) + Len(documents) <= MaxStore
    /\ LET r == addDocuments(vs, faiss, engine.obj, documents, outcome)
       IN /\ vs' = r.vs
          /\ faiss' = r.faiss
          /\ engine' = IF engine.owner = "vs" THEN [engine EXCEPT !.obj = r.engine] ELSE engine
          /\ last' = [LastIdle EXCEPT !.op = "addDocuments", !.threw = r.threw,
                                      !.documents = documents]
    /\ UNCHANGED <<fz, rt, calls>>

Clear(deleteFails, outcome) ==
    /\ Len(faiss) < MaxStores
    /\ LET r == clear(vs, faiss, deleteFails, outcome)
       IN /\ vs' = r.vs
          /\ faiss' = r.faiss
    /\ last' = [LastIdle EXCEPT !.op = "clear"]
    /\ UNCHANGED <<engine, fz, rt, calls>>

\* HybridSearchEngine.buildIndex(documents, vectorStore) called on the engine;
\* QueryEngine.buildHybridIndex is the call with vectorStore = Wrapper
BuildIndex(documents, vectorStore) ==
    /\ IF vectorStore = Wrapper THEN TRUE ELSE vectorStore = vs.vectorStore
    /\ LET r == buildIndex(engine.obj, documents, vectorStore)
       IN /\ engine' = [engine EXCEPT !.obj = r.engine]
          /\ last' = [LastIdle EXCEPT !.op = "buildIndex", !.threw = r.threw,
                                      !.indexed = engine.obj.isIndexed,
                                      !.documents = documents]
    /\ UNCHANGED <<vs, faiss, fz, rt, calls>>

RebuildIndex ==
    /\ LET r == rebuildIndex(engine.obj)
       IN /\ engine' = [engine EXCEPT !.obj = r.engine]
          /\ last' = [LastIdle EXCEPT !.op = "rebuildIndex", !.threw = r.threw,
                                      !.indexed = engine.obj.isIndexed]
    /\ UNCHANGED <<vs, faiss, fz, rt, calls>>

GetIndexStats ==
    /\ last' = [LastIdle EXCEPT !.op = "getIndexStats",
                                !.indexed = engine.obj.isIndexed,
                                !.stats = getIndexStats(engine.obj)]
    /\ UNCHANGED <<vs, faiss, engine, fz, rt, calls>>

KeywordSearch(query, k) ==
    /\ LET r == keywordSearch(engine.obj, query, k)
       IN /\ engine' = [engine EXCEPT !.obj = r.engine]
          /\ last' = [LastIdle EXCEPT !.op = "keywordSearch", !.query = query,
                                      !.k = k, !.indexed = engine.obj.isIndexed,
                                      !.threw = r.threw, !.results = r.results]
    /\ UNCHANGED <<vs, faiss, fz, rt, calls>>

SemanticSearch(query, k, mode) ==
    /\ LET r == semanticSearch(engine.obj, vs, faiss, query, k, mode)
       IN /\ engine' = [engine EXCEPT !.obj = r.engine]
          /\ last' = [LastIdle EXCEPT !.op = "semanticSearch", !.query = query,
                                      !.k = k, !.indexed = engine.obj.isIndexed,
                                      !.threw = r.threw, !.results = r.results,
                                      !.mode = mode]
    /\ UNCHANGED <<vs, faiss, fz, rt, calls>>

HybridSearch(query, maxResults, weights, mode, fallbackMode) ==
    /\ LET r == hybridSearch(engine.obj, vs, faiss, query, maxResults,
                             weights[1], weights[2], mode, fallbackMode)
       IN /\ engine' = [engine EXCEPT !.obj = r.engine]
          /\ last' = [LastIdle EXCEPT !.op = "hybridSearch", !.query = query,
                                      !.k = maxResults, !.weights = weights,
                                      !.indexed = engine.obj.isIndexed,
                                      !.threw = r.threw, !.results = r.results,
                                      !.mode = mode,
                                      !.fallbackMode = IF r.usedFallback THEN fallbackMode
                                                       ELSE "none",
                                      !.keyword = r.keyword,
                                      !.fused = r.fused, !.semantic = r.semantic]
    /\ UNCHANGED <<vs, faiss, fz, rt, calls>>

Next ==
    \/ \E documents \in Batches \ {<<>>}, vectorStore \in {Wrapper} \cup (1..MaxStores) :
          BuildIndex(documents, vectorStore)
    \/ RebuildIndex
    \/ GetIndexStats
    \/ \E query \in Queries, k \in SearchKs : KeywordSearch(query, k)
    \/ \E query \in Queries, k \in SearchKs, mode \in OracleModes :
          SemanticSearch(query, k, mode)
    \/ \E query \in Queries, maxResults \in MaxResultsChoices,
          weights \in SearchWeights, mode \in OracleModes, fallbackMode \in OracleModes :
          HybridSearch(query, maxResults, weights, mode, fallbackMode)

Spec == Init /\ [][Next]_vars

(***************************************************************************)
(* The corpus operations of the VectorStore                                *)
(***************************************************************************)
NextStore ==
    \/ \E outcome \in Outcomes : Initialize(outcome)
    \/ \E documents \in Batches, outcome \in Outcomes : AddDocuments(documents, outcome)
    \/ \E deleteFails \in BOOLEAN, outcome \in Outcomes : Clear(deleteFails, outcome)

SpecStore == InitStore /\ [][NextStore]_vars

(***************************************************************************)
(* Rank fusion alone                                                       *)
(***************************************************************************)
InitFuse ==
    /\ vs = NewVectorStore(NoDisk)
    /\ faiss = <<>>
    /\ engine = [owner |-> "vs", obj |-> NewEngine(0)]
    /\ last = LastIdle
    /\ fz \in FzInputs
    /\ rt = RtIdle
    /\ calls = NoCalls

NextFuse == FuseResultsCall \/ EnsembleCall

SpecFuse == InitFuse /\ [][NextFuse]_vars

(***************************************************************************)
(* Question routing: the classifier, QueryEngine.query, directQuery and    *)
(* the /hybrid-query route (middleware, then handler)                      *)
(***************************************************************************)
Request(op, question, chain, forceSearchMode) ==
    [RtIdle EXCEPT !.op = op, !.question = question, !.chain = chain,
                   !.forceSearchMode = forceSearchMode,
                   !.questionClassifier = rt.questionClassifier]

InitRouter ==
    /\ \E st \in {Constructed, Uploaded(Uploaded(Initialized, <<DocA0, DocA1>>), <<DocB0>>)} :
          /\ vs = st.vs
          /\ faiss = st.faiss
    /\ engine = [owner |-> "qe", obj |-> NewEngine(Wrapper)]
    /\ last = LastIdle
    /\ fz = FzIdle
    /\ \E available \in BOOLEAN : rt = [RtIdle EXCEPT !.questionClassifier = available]
    /\ calls = NoCalls

\* questionClassifier.classifyQuestion(question)
ClassifyQuestion(question, chain) ==
    /\ rt.questionClassifier
    /\ LET c == classifyQuestion(question, chain)
       IN rt' = [Request("classifyQuestion", question, chain, FALSE) EXCEPT
                    !.classification = c.classification,
                    !.classifyThrew = c.threw,
                    !.oracleCalls = c.oracleCalls]
    /\ UNCHANGED <<vs, faiss, engine, last, fz, calls>>

\* POST /query: queryEngine.query(question, options)
Query(question, chain, forceSearchMode, llmDirect, llmAnswer, mode) ==
    /\ rt' = QueryEngineQuery(Request("query", question, chain, forceSearchMode),
                              vs, faiss, question, chain, llmDirect, llmAnswer, mode)
    /\ UNCHANGED <<vs, faiss, engine, last, fz, calls>>

\* POST /direct-query: queryEngine.directQuery(question, {conversationHistory})
DirectQuery(question, llmDirect) ==
    /\ LET d == directQuery(question, llmDirect)
       IN rt' = [Request("directQuery", question, ChainThrows, FALSE) EXCEPT
                    !.directCalled = TRUE,
                    !.directThrew = d.threw,
                    !.retrievalCalls = d.retrievalCalls,
                    !.response = IF d.threw THEN "error" ELSE "direct"]
    /\ UNCHANGED <<vs, faiss, engine, last, fz, calls>>

\* POST /hybrid-query, first the middleware
ClassifyAndHandleDirectQuery(question, chain, forceSearchMode, llmDirect) ==
    /\ rt' = classifyAndHandleDirectQuery(
                 Request("classifyAndHandleDirectQuery", question, chain, forceSearchMode),
                 question, chain, llmDirect)
    /\ UNCHANGED <<vs, faiss, engine, last, fz, calls>>

\* POST /hybrid-query after next(): queryEngine.hybridQuery(question,
\* {searchType: 'hybrid', maxResults: 4}), then res.json(formatQueryResponse(...));
\* asyncHandler answers an exception with status 500
HybridQueryHandler(mode, llmAnswer) ==
    /\ rt.op = "classifyAndHandleDirectQuery"
    /\ rt.next
    /\ LET r == hybridQuery(engine.obj, vs, faiss, rt.question, 4, mode, llmAnswer)
       IN /\ engine' = [engine EXCEPT !.obj = r.engine]
          /\ rt' = Responded(rt, r.answer)
    /\ UNCHANGED <<vs, faiss, last, fz, calls>>

NextRouter ==
    \/ \E question \in Questions, chain \in ChainOutcomes : ClassifyQuestion(question, chain)
    \/ \E question \in Questions, chain \in ChainOutcomes, forceSearchMode \in BOOLEAN,
          llmDirect \in BOOLEAN, llmAnswer \in BOOLEAN, mode \in OracleModes :
          Query(question, chain, forceSearchMode, llmDirect, llmAnswer, mode)
    \/ \E question \in Questions, llmDirect \in BOOLEAN : DirectQuery(question, llmDirect)
    \/ \E question \in Questions, chain \in ChainOutcomes, forceSearchMode \in BOOLEAN,
          llmDirect \in BOOLEAN :
          ClassifyAndHandleDirectQuery(question, chain, forceSearchMode, llmDirect)
    \/ \E mode \in OracleModes, llmAnswer \in BOOLEAN : HybridQueryHandler(mode, llmAnswer)

SpecRouter == InitRouter /\ [][NextRouter]_vars

(***************************************************************************)
(* Overlapping calls on one engine                                         *)
(***************************************************************************)
AsyncQueries == {<<"apples", "bananas">>, <<"Apples", "?">>}

AsyncKs == {1, 2}

InitAsync ==
    /\ LET st == Uploaded(Initialized, <<DocA0, DocA1>>)
       IN /\ vs = st.vs
          /\ faiss = st.faiss
          /\ engine = [owner |-> "vs", obj |-> st.engine]
    /\ last = LastIdle
    /\ fz = FzIdle
    /\ rt = RtIdle
    /\ calls = NoCalls

\* each call of CallIds is made once, in the order of CallIds
Free(c) == calls[c].phase = "idle" /\ \A d \in CallIds : d < c => calls[d].phase # "idle"

\* a keywordSearch(query, k) call is made and runs up to its await
KeywordSearchCalled(c, query, k) ==
    /\ Free(c)
    /\ LET r == KeywordSearchStart(engine.obj, query, k)
       IN /\ engine' = [engine EXCEPT !.obj = r.engine]
          /\ calls' = [calls EXCEPT ![c] = r.call]
    /\ UNCHANGED <<vs, faiss, last, fz, rt>>

\* a hybridSearch(query, {maxResults}) call is made and runs up to its await
HybridSearchCalled(c, query, maxResults) ==
    /\ Free(c)
    /\ LET r == HybridSearchStart(engine.obj, query, maxResults)
       IN /\ engine' = [engine EXCEPT !.obj = r.engine]
          /\ calls' = [calls EXCEPT ![c] = r.call]
    /\ UNCHANGED <<vs, faiss, last, fz, rt>>

\* the retriever a call invoked gets to run _getRelevantDocuments
RetrieverRuns(c) ==
    /\ calls[c].phase = "called"
    /\ calls' = [calls EXCEPT ![c].phase = "read",
                              ![c].keyword = RetrieverRun(calls[c], engine.obj)]
    /\ UNCHANGED <<vs, faiss, engine, last, fz, rt>>

\* keywordSearch resumes after its await and returns
KeywordSearchReturns(c) ==
    /\ calls[c].phase = "read" /\ calls[c].op = "keywordSearch"
    /\ calls' = [calls EXCEPT ![c].phase = "done",
                              ![c].results = RankScored(calls[c].keyword, "keyword")]
    /\ UNCHANGED <<vs, faiss, engine, last, fz, rt>>

\* the semantic oracle answers and hybridSearch resumes and returns
HybridSearchReturns(c, mode) ==
    /\ calls[c].op = "hybridSearch"
    /\ calls[c].phase \in {"read", "fallback"}
    /\ LET call == calls[c]
           ensemble == call.ensemble
           semantic == IF call.phase = "read"
                       THEN VectorRetrieverGet(ensemble.vector, faiss, mode)
                       ELSE Threw
           fallback == SemanticFallback(engine.obj, vs, faiss, call.query, call.k, mode,
                                        TRUE, call.keyword)
       IN calls' = [calls EXCEPT
             ![c].phase = "done",
             ![c].results =
                 IF semantic.threw THEN fallback.results
                 ELSE RankScored(Take(EnsembleFuse(<<call.keyword, semantic.results>>,
                                                   ensemble.weights), call.k), "hybrid")]
    /\ UNCHANGED <<vs, faiss, engine, last, fz, rt>>

\* buildIndex(documents, vectorStore) runs from start to end (it has no await)
BuildIndexRuns(documents, vectorStore) ==
    /\ IF vectorStore = Wrapper THEN TRUE ELSE vectorStore = vs.vectorStore
    /\ engine' = [engine EXCEPT !.obj = buildIndex(engine.obj, documents, vectorStore).engine]
    /\ calls' = [c \in CallIds |-> Superseded(calls[c], engine.obj, documents)]
    /\ UNCHANGED <<vs, faiss, last, fz, rt>>

\* rebuildIndex(): buildIndex(this.documents, this.vectorStore)
RebuildIndexRuns ==
    /\ engine.obj.documents # <<>> /\ engine.obj.vectorStore # 0
    /\ engine' = [engine EXCEPT !.obj = rebuildIndex(engine.obj).engine]
    /\ calls' = [c \in CallIds |-> Superseded(calls[c], engine.obj, engine.obj.documents)]
    /\ UNCHANGED <<vs, faiss, last, fz, rt>>

NextAsync ==
    \/ \E c \in CallIds, query \in AsyncQueries, k \in AsyncKs : KeywordSearchCalled(c, query, k)
    \/ \E c \in CallIds, query \in AsyncQueries, maxResults \in AsyncKs :
          HybridSearchCalled(c, query, maxResults)
    \/ \E c \in CallIds : RetrieverRuns(c)
    \/ \E c \in CallIds : KeywordSearchReturns(c)
    \/ \E c \in CallIds, mode \in OracleModes : HybridSearchReturns(c, mode)
    \/ \E documents \in Batches \ {<<>>}, vectorStore \in {Wrapper} \cup (1..MaxStores) :
          BuildIndexRuns(documents, vectorStore)
    \/ RebuildIndexRuns

SpecAsync == InitAsync /\ [][NextAsync]_vars

(***************************************************************************)
(* Results and chunks with parts missing, handed to the functions that     *)
(* read them                                                               *)
(***************************************************************************)
Scored(doc, metadata) ==
    [content |-> doc.content, metadata |-> metadata, score |-> Rational(1, 2)]

\* a well-formed result, one without a metadata object, one whose metadata
\* has no field, one whose content is no string, one whose content is empty
MalformedResults ==
    {Scored(DocA0, DocA0.metadata), Scored(DocA1, Undefined), Scored(DocB0, EmptyMetadata),
     Scored([content |-> NotAString], DocA1.metadata), Scored([content |-> <<>>], DocB0.metadata)}

\* a chunk of docA as documentProcessor stamps it, with fileType and processedAt
Stamped(doc, fileType, processedAt) ==
    Scored(doc, [source |-> doc.metadata.source, chunkIndex |-> doc.metadata.chunkIndex,
                 type |-> "", fileType |-> fileType, processedAt |-> processedAt])

FormatResults == MalformedResults \cup {Stamped(DocA1, "pdf", "t1"), Stamped(DocA0, "txt", "t2")}

InitFormat ==
    /\ vs = NewVectorStore(NoDisk)
    /\ faiss = <<>>
    /\ engine = [owner |-> "vs", obj |-> NewEngine(0)]
    /\ last = LastIdle
    /\ \E k \in SeqsUpTo(FormatResults, MaxLen), sem \in SeqsUpTo(MalformedResults, 1) :
          fz = [FzIdle EXCEPT !.keyword = k, !.semantic = sem]
    /\ rt = RtIdle
    /\ calls = NoCalls

Returns(op, threw, results) ==
    /\ last.op = "none"
    /\ last' = [LastIdle EXCEPT !.op = op, !.threw = threw, !.results = results]
    /\ UNCHANGED <<vs, faiss, engine, fz, rt, calls>>

FuseResultsOfMalformed ==
    Returns("fuseResults", FALSE,
            fuseResults(fz.keyword, fz.semantic, fz.keywordWeight, fz.semanticWeight))

FormatContextCall ==
    LET r == formatContext(fz.keyword) IN Returns("formatContext", r.threw, r.context)

FormatHybridContextCall ==
    LET r == formatHybridContext(fz.keyword)
    IN Returns("formatHybridContext", r.threw, r.context)

ExtractSourcesCall ==
    LET r == extractSources(fz.keyword) IN Returns("extractSources", r.threw, r.sources)

\* new BM25Retriever(documents, 10): _buildIndex adds each document's text
BuildIndexOfMalformed ==
    Returns("_buildIndex", FALSE, [i \in 1..Len(fz.keyword) |-> IndexedText(fz.keyword[i])])

NextFormat ==
    \/ FuseResultsOfMalformed
    \/ FormatContextCall
    \/ FormatHybridContextCall
    \/ ExtractSourcesCall
    \/ BuildIndexOfMalformed

SpecFormat == InitFormat /\ [][NextFormat]_vars

(***************************************************************************)
(* Keyword search alone, over every small corpus                           *)
(***************************************************************************)
KeywordQueries == {<<"apples", "bananas">>, <<"Apples", "?">>, <<"kiwi">>, <<"?">>}

KeywordKs == {1, 2, 10}

\* an engine INDEXED by buildIndex(documents, store) with a FaissStore of the documents
InitKeyword ==
    /\ vs = NewVectorStore(NoDisk)
    /\ \E documents \in SeqsUpTo(RealDocs, MaxLen) \ {<<>>} :
          /\ faiss = <<documents>>
          /\ engine = [owner |-> "vs", obj |-> buildIndex(NewEngine(0), documents, 1).engine]
    /\ last = LastIdle
    /\ fz = FzIdle
    /\ rt = RtIdle
    /\ calls = NoCalls

NextKeyword == \E query \in KeywordQueries, k \in KeywordKs : KeywordSearch(query, k)

SpecKeyword == InitKeyword /\ [][NextKeyword]_vars

(***************************************************************************)
(* addDocuments and clear calls that overlap.  Each call runs from one     *)
(* await to the next in one step: addDocuments awaits the FaissStore's     *)
(* addDocuments (the embedding) and then the save; clear awaits, inside    *)
(* initialize, the load or the creation of a FaissStore and then the save. *)
(* A call holds the batch it was given (documents), the FaissStore object  *)
(* the awaited method was called on (store) and, for clear, whether        *)
(* initialize found the store directory (load).                            *)
(***************************************************************************)
InitOverlap ==
    /\ \E st \in {Initialized, Uploaded(Initialized, <<DocB0>>)} :
          /\ vs = st.vs
          /\ faiss = st.faiss
          /\ engine = [owner |-> "vs", obj |-> st.engine]
    /\ last = LastIdle
    /\ fz = FzIdle
    /\ rt = RtIdle
    /\ calls = NoCalls

NoneInFlight == \A c \in CallIds : calls[c].phase = "idle"

\* the chunks that the addDocuments calls in flight are about to add to a store
RECURSIVE Pending(_, _)
Pending(ids, store) ==
    IF ids = {} THEN 0
    ELSE LET c == CHOOSE d \in ids : TRUE
         IN (IF calls[c].phase = "embedding" /\ calls[c].store = store
             THEN Len(calls[c].documents) ELSE 0) + Pending(ids \ {c}, store)

\* the FaissStore objects that the clear calls in flight are about to create
Creating == Cardinality({c \in CallIds : calls[c].phase = "initializing"})

Finished(op, threw, documents) ==
    [LastIdle EXCEPT !.op = op, !.threw = threw, !.documents = documents]

\* addDocuments(documents) is called and runs up to
\* await this.vectorStore.addDocuments(documents)
AddDocumentsCalled(c, documents) ==
    /\ calls[c].phase = "idle"
    /\ IF vs.vectorStore = 0 THEN TRUE
       ELSE RealCount(faiss[vs.vectorStore]) + Pending(CallIds, vs.vectorStore)
                + Len(documents) <= MaxStore
    /\ IF ~vs.isInitialized \/ vs.vectorStore = 0 \/ Len(documents) = 0
       THEN /\ last' = Finished("addDocuments", TRUE, documents)
            /\ calls' = calls
       ELSE /\ last' = last
            /\ calls' = [calls EXCEPT ![c] =
                            [CallIdle EXCEPT !.phase = "embedding", !.op = "addDocuments",
                                             !.documents = documents,
                                             !.store = vs.vectorStore]]
    /\ UNCHANGED <<vs, faiss, engine, fz, rt>>

\* the FaissStore has embedded and added the batch (or the embedding threw);
\* addDocuments resumes: buildIndex(documents, this.vectorStore),
\* this.documentsCount += documents.length, and saveVectorStore() up to its await
AddDocumentsEmbedded(c, outcome) ==
    /\ calls[c].phase = "embedding"
    /\ LET call == calls[c]
           built == buildIndex(engine.obj, call.documents, vs.vectorStore)
       IN IF outcome = "embedFails"
          THEN /\ last' = Finished("addDocuments", TRUE, call.documents)
               /\ calls' = [calls EXCEPT ![c] = CallIdle]
               /\ UNCHANGED <<vs, faiss, engine>>
          ELSE /\ faiss' = [faiss EXCEPT ![call.store] = @ \o call.documents]
               /\ engine' = [engine EXCEPT !.obj = built.engine]
               /\ IF built.threw
                  THEN /\ last' = Finished("addDocuments", TRUE, call.documents)
                       /\ calls' = [calls EXCEPT ![c] = CallIdle]
                       /\ vs' = vs
                  ELSE /\ last' = last
                       /\ calls' = [calls EXCEPT ![c].phase = "saving",
                                                 ![c].store = vs.vectorStore]
                       /\ vs' = [vs EXCEPT !.documentsCount = @ + Len(call.documents)]
    /\ UNCHANGED <<fz, rt>>

\* the save that addDocuments awaits ends: the store is on disk with
\* metadata.json holding the documentsCount of this moment, or the save threw
AddDocumentsSaved(c, outcome) ==
    /\ calls[c].phase = "saving" /\ calls[c].op = "addDocuments"
    /\ vs' = IF outcome = "saveFails" THEN vs
             ELSE [vs EXCEPT !.disk = [exists |-> TRUE, docs |-> faiss[calls[c].store],
                                       documentsCount |-> vs.documentsCount]]
    /\ last' = Finished("addDocuments", outcome = "saveFails", calls[c].documents)
    /\ calls' = [calls EXCEPT ![c] = CallIdle]
    /\ UNCHANGED <<faiss, engine, fz, rt>>

\* clear() is called: the fields are reset, the directory is removed (or the
\* three attempts fail) and initialize() runs up to its first await
ClearCalled(c, deleteFails) ==
    /\ calls[c].phase = "idle"
    /\ Len(faiss) + Creating < MaxStores
    /\ vs' = [vs EXCEPT !.documentsCount = 0, !.vectorStore = 0, !.isInitialized = FALSE,
                        !.disk = IF deleteFails THEN @ ELSE NoDisk]
    /\ calls' = [calls EXCEPT ![c] =
                    [CallIdle EXCEPT !.phase = "initializing", !.op = "clear",
                                     !.load = deleteFails /\ vs.disk.exists]]
    /\ UNCHANGED <<faiss, engine, last, fz, rt>>

\* FaissStore.load or FaissStore.fromTexts ends and initialize() resumes: after
\* a load it reads metadata.json and returns, after a creation it runs
\* saveVectorStore() up to its await
ClearInitialized(c, outcome) ==
    /\ calls[c].phase = "initializing"
    /\ IF calls[c].load
       THEN /\ IF vs.disk.exists
               THEN /\ vs' = [vs EXCEPT !.vectorStore = Len(faiss) + 1,
                                        !.documentsCount = vs.disk.documentsCount,
                                        !.isInitialized = TRUE]
                    /\ faiss' = Append(faiss, vs.disk.docs)
               ELSE /\ vs' = [vs EXCEPT !.isInitialized = FALSE]
                    /\ faiss' = faiss
            /\ last' = Finished("clear", FALSE, <<>>)
            /\ calls' = [calls EXCEPT ![c] = CallIdle]
       ELSE IF outcome = "embedFails"
       THEN /\ vs' = [vs EXCEPT !.isInitialized = FALSE]
            /\ faiss' = faiss
            /\ last' = Finished("clear", FALSE, <<>>)
            /\ calls' = [calls EXCEPT ![c] = CallIdle]
       ELSE /\ vs' = [vs EXCEPT !.vectorStore = Len(faiss) + 1]
            /\ faiss' = Append(faiss, <<DummyDoc>>)
            /\ last' = last
            /\ calls' = [calls EXCEPT ![c].phase = "saving", ![c].store = Len(faiss) + 1]
    /\ UNCHANGED <<engine, fz, rt>>

\* the save that initialize() awaits ends, and clear() returns
ClearSaved(c, outcome) ==
    /\ calls[c].phase = "saving" /\ calls[c].op = "clear"
    /\ vs' = IF outcome = "saveFails" THEN [vs EXCEPT !.isInitialized = FALSE]
             ELSE [vs EXCEPT !.isInitialized = TRUE,
                             !.disk = [exists |-> TRUE, docs |-> faiss[calls[c].store],
                                       documentsCount |-> vs.documentsCount]]
    /\ last' = Finished("clear", FALSE, <<>>)
    /\ calls' = [calls EXCEPT ![c] = CallIdle]
    /\ UNCHANGED <<faiss, engine, fz, rt>>

NextOverlap ==
    \/ \E c \in CallIds, documents \in Batches : AddDocumentsCalled(c, documents)
    \/ \E c \in CallIds, outcome \in {"ok", "embedFails"} : AddDocumentsEmbedded(c, outcome)
    \/ \E c \in CallIds, outcome \in {"ok", "saveFails"} : AddDocumentsSaved(c, outcome)
    \/ \E c \in CallIds, deleteFails \in BOOLEAN : ClearCalled(c, deleteFails)
    \/ \E c \in CallIds, outcome \in {"ok", "embedFails"} : ClearInitialized(c, outcome)
    \/ \E c \in CallIds, outcome \in {"ok", "saveFails"} : ClearSaved(c, outcome)

SpecOverlap == InitOverlap /\ [][NextOverlap]_vars

(***************************************************************************)
(* Rank fusion: what the results must be.  Chunk identity is the pair      *)
(* (source, chunkIndex) of the metadata; ranks are 1-based; rank 0 means   *)
(* the chunk is not in the list.                                           *)
(***************************************************************************)
KeysOf(list) == {Key(list[i]) : i \in 1..Len(list)}

Occurrences(list, key) == Cardinality({i \in 1..Len(list) : Key(list[i]) = key})

NoRepeatedChunk(list) == \A key \in KeysOf(list) : Occurrences(list, key) = 1

RankIn(list, key) ==
    IF key \in KeysOf(list)
    THEN CHOOSE i \in 1..Len(list) :
            Key(list[i]) = key /\ \A j \in 1..(i - 1) : Key(list[j]) # key
    ELSE 0

\* weight / (60 + rank) in the unit 1 / (10 * RRFScale), RRFScale being a
\* multiple of every 60 + rank; nothing for rank 0
Contribution(weight, rank) ==
    IF rank = 0 THEN 0 ELSE weight * (RRFScale \div (RRF_K + rank))

ExpectedScore(key) ==
    Contribution(fz.keywordWeight, RankIn(fz.keyword, key))
    + Contribution(fz.semanticWeight, RankIn(fz.semantic, key))

FusedKeys == {Key(fz.fused[i]) : i \in 1..Len(fz.fused)}

EnsembleKeys == {Key(fz.ensemble[i].doc) : i \in 1..Len(fz.ensemble)}

FusedScoreOf(key) == fz.fused[CHOOSE i \in 1..Len(fz.fused) : Key(fz.fused[i]) = key].score

InputKeys == KeysOf(fz.keyword) \cup KeysOf(fz.semantic)

\* C8: for lists without repeated chunks and any weights, fuseResults and the
\* EnsembleRetriever give every chunk the score wk/(60+rk) + ws/(60+rs), the
\* term of a list the chunk is not in being omitted.
C8_FusedScoreIsWeightedReciprocalRankSum ==
    (NoRepeatedChunk(fz.keyword) /\ NoRepeatedChunk(fz.semantic)) =>
        /\ \A r \in 1..(MaxLen + 1) : RRFScale % (RRF_K + r) = 0
        /\ fz.fusedDone =>
              /\ InputKeys \subseteq FusedKeys
              /\ \A i \in 1..Len(fz.fused) :
                    fz.fused[i].score = ExpectedScore(Key(fz.fused[i]))
        /\ fz.ensembleDone =>
              /\ InputKeys \subseteq EnsembleKeys
              /\ \A i \in 1..Len(fz.ensemble) :
                    fz.ensemble[i].fusedScore = ExpectedScore(Key(fz.ensemble[i].doc))

\* both fusions have run on repeat-free lists in which one chunk is in both
\* lists at different ranks and another chunk is in one list only
C8_Witness ==
    /\ fz.fusedDone /\ fz.ensembleDone
    /\ NoRepeatedChunk(fz.keyword) /\ NoRepeatedChunk(fz.semantic)
    /\ \E key \in InputKeys :
          /\ RankIn(fz.keyword, key) > 0 /\ RankIn(fz.semantic, key) > 0
          /\ RankIn(fz.keyword, key) # RankIn(fz.semantic, key)
    /\ \E key \in InputKeys : RankIn(fz.keyword, key) = 0 \/ RankIn(fz.semantic, key) = 0

C9_Scenario ==
    /\ fz.keyword = <<DocA0, DocB0>>
    /\ fz.semantic = <<DocB0, DocA0>>
    /\ fz.keywordWeight = 3 /\ fz.semanticWeight = 7
    /\ fz.fusedDone

\* C9 as stated: fusing keyword [(docA,0), (docB,0)] with semantic [(docB,0), (docA,0)]
\* under weights (0.3, 0.7) gives (docB,0) the score 0.3/61 + 0.7/61 and (docA,0)
\* the score 0.3/61 + 0.7/62, and (docB,0) is first.
C9_ScenarioScoresAsStated ==
    C9_Scenario =>
        /\ FusedScoreOf(Key(DocB0)) = Contribution(3, 1) + Contribution(7, 1)
        /\ FusedScoreOf(Key(DocA0)) = Contribution(3, 1) + Contribution(7, 2)
        /\ Key(fz.fused[1]) = Key(DocB0)

\* C9 amended: in that scenario (docB,0), second in the keyword list, scores
\* 0.3/62 + 0.7/61, (docA,0) scores 0.3/61 + 0.7/62, and (docB,0) is first.
C9_ScenarioScores ==
    C9_Scenario =>
        /\ Len(fz.fused) = 2
        /\ FusedScoreOf(Key(DocB0)) = Contribution(3, 2) + Contribution(7, 1)
        /\ FusedScoreOf(Key(DocA0)) = Contribution(3, 1) + Contribution(7, 2)
        /\ Key(fz.fused[1]) = Key(DocB0)
        /\ fz.fused[1].score > fz.fused[2].score

C9_Witness == C9_Scenario /\ Len(fz.fused) = 2

\* C10: the fused output has exactly one entry per chunk identity (source,
\* chunkIndex) of either input list; a chunk in both lists gets one entry whose
\* score is the sum of its two contributions; chunks with different identities
\* are never merged.
C10_OneEntryPerChunkIdentity ==
    /\ fz.fusedDone =>
          /\ FusedKeys = InputKeys
          /\ Len(fz.fused) = Cardinality(InputKeys)
          /\ \A i \in 1..Len(fz.fused) :
                LET key == Key(fz.fused[i])
                IN (Occurrences(fz.keyword, key) = 1 /\ Occurrences(fz.semantic, key) = 1) =>
                      fz.fused[i].score =
                          Contribution(fz.keywordWeight, RankIn(fz.keyword, key))
                          + Contribution(fz.semanticWeight, RankIn(fz.semantic, key))
    /\ fz.ensembleDone =>
          /\ EnsembleKeys = InputKeys
          /\ Len(fz.ensemble) = Cardinality(InputKeys)
          /\ \A i \in 1..Len(fz.ensemble) :
                LET key == Key(fz.ensemble[i].doc)
                IN (Occurrences(fz.keyword, key) = 1 /\ Occurrences(fz.semantic, key) = 1) =>
                      fz.ensemble[i].fusedScore =
                          Contribution(fz.keywordWeight, RankIn(fz.keyword, key))
                          + Contribution(fz.semanticWeight, RankIn(fz.semantic, key))

\* both fusions have run on lists that share (docA,0) at different ranks and
\* also hold (docA,1), which differs from it in the chunk index only
C10_Witness ==
    /\ fz.fusedDone /\ fz.ensembleDone
    /\ RankIn(fz.keyword, Key(DocA0)) > 0
    /\ RankIn(fz.semantic, Key(DocA0)) > 0
    /\ RankIn(fz.keyword, Key(DocA0)) # RankIn(fz.semantic, Key(DocA0))
    /\ Key(DocA1) \in InputKeys
    /\ Occurrences(fz.fused, Key(DocA0)) = 1

(***************************************************************************)
(* Searches on the engine                                                  *)
(***************************************************************************)
IsSearch == last.op \in {"keywordSearch", "semanticSearch", "hybridSearch"}

C2_HybridSurvivesOracleFailure ==
    (/\ last.op = "hybridSearch" /\ last.indexed
     /\ last.mode = "throw" /\ last.fallbackMode \in {"throw", "none"}
     /\ last.keyword # <<>>) =>
        /\ ~last.threw
        /\ last.results # <<>>
        /\ KeysOf(last.results) \subseteq KeysOf(last.keyword)

\* C4: a buildIndex that throws on an INDEXED engine leaves documents, keyword
\* retriever, ensemble retriever and oracle reference as they were, and keyword
\* search answers from the previous corpus.
C4_FailedBuildKeepsIndex ==
    [][(last'.op = "buildIndex" /\ last'.threw /\ engine.obj.isIndexed) =>
          /\ engine'.obj = engine.obj
          /\ \A query \in Queries :
                keywordSearch(engine'.obj, query, 10).results
                    = keywordSearch(engine.obj, query, 10).results]_vars

(***************************************************************************)
(* The keyword index against the corpus                                    *)
(***************************************************************************)
IndexedChunks == Range(engine.obj.bm25Retriever.documents)

Corpus ==
    IF vs.vectorStore = 0 THEN {}
    ELSE {doc \in Range(faiss[vs.vectorStore]) : ~IsDummy(doc)}

\* C3: after successful addDocuments and clear calls the chunks of the keyword
\* index of the VectorStore's engine are the current corpus: every successful
\* addDocuments or clear that starts with index = corpus ends with index = corpus.
C3_IndexFollowsCorpus ==
    [][(/\ engine.owner = "vs"
        /\ last'.op \in {"addDocuments", "clear"} /\ ~last'.threw
        /\ vs.isInitialized /\ vs'.isInitialized
        /\ IndexedChunks = Corpus) => IndexedChunks' = Corpus']_vars

(***************************************************************************)
(* Question routing: what the decisions must be                            *)
(***************************************************************************)
\* the request consulted the classifier
Classified ==
    /\ rt.op \in {"classifyQuestion", "query", "classifyAndHandleDirectQuery"}
    /\ rt.questionClassifier
    /\ ~rt.forceSearchMode

MatchesPattern(question) ==
    /\ question # NotAString
    /\ \/ LET t == Trim(question)
          IN [i \in 1..Len(t) |-> LowerCase(t[i])] \in GreetingPhrases
       \/ \E pattern \in PersonalPatterns : MatchesInOrder(pattern, question)

Unrecognizable(chain) ==
    \/ chain.threw
    \/ LET t == Trim(chain.text)
           upper == [i \in 1..Len(t) |-> UpperCase(t[i])]
       IN ~Includes(upper, "DIRECT") /\ ~Includes(upper, "SEARCH")

\* C5: for a question (a string) that matches no greeting or personal
\* pattern, when the classification oracle throws or returns a text that,
\* trimmed and upper-cased, contains neither DIRECT nor SEARCH,
\* classifyQuestion returns SEARCH, never DIRECT.
C5_UnclearOracleMeansSearch ==
    (Classified /\ rt.question # NotAString /\ ~MatchesPattern(rt.question)
        /\ Unrecognizable(rt.chain))
    => (~rt.classifyThrew /\ rt.classification = "SEARCH" /\ rt.oracleCalls = 1)

C5_Witness ==
    /\ rt.op = "classifyQuestion"
    /\ rt.question = <<"Apples", "?">>
    /\ rt.chain = ChainReturns(<<"maybe">>)
    /\ rt.classification = "SEARCH"

\* C6: whenever the question matches a greeting or personal-question pattern,
\* classifyQuestion returns DIRECT and the classification oracle is invoked
\* zero times during the call.
C6_PatternMeansDirectWithoutOracle ==
    (Classified /\ MatchesPattern(rt.question))
    => (~rt.classifyThrew /\ rt.classification = "DIRECT" /\ rt.oracleCalls = 0)

C6_Witness ==
    /\ rt.op = "classifyQuestion"
    /\ rt.question = <<" ", "HELLO", " ">>
    /\ rt.chain = ChainReturns(<<"SEARCH">>)
    /\ rt.classification = "DIRECT"
    /\ rt.oracleCalls = 0

\* C7: a request whose classifier decision is DIRECT is answered without any
\* retrieval call (QueryEngine.query makes no similaritySearch, the middleware
\* does not pass the request on to the searching handler); a retrieval call
\* is made only after a SEARCH decision, a classifier failure or
\* forceSearchMode.
C7_DirectSkipsRetrieval ==
    /\ (rt.op = "query" /\ rt.classification = "DIRECT") => rt.retrievalCalls = 0
    /\ (rt.op = "classifyAndHandleDirectQuery" /\ rt.classification = "DIRECT") => ~rt.next
    /\ (rt.op \in {"query", "hybridQuery"} /\ rt.retrievalCalls > 0)
           => \/ rt.classification = "SEARCH"
              \/ rt.classifyThrew
              \/ rt.forceSearchMode
              \/ ~rt.questionClassifier

(***************************************************************************)
(* Rank fusion: repeated chunks, order                                     *)
(***************************************************************************)
HasRepeatedChunk(list) == ~NoRepeatedChunk(list)

\* C11: when a chunk identity occurs more than once inside one input list,
\* only the rank of its first occurrence contributes to the fused score;
\* later occurrences in the same list add nothing.
C11_OnlyFirstOccurrenceCounts ==
    (HasRepeatedChunk(fz.keyword) \/ HasRepeatedChunk(fz.semantic)) =>
        /\ fz.fusedDone =>
              \A i \in 1..Len(fz.fused) :
                 fz.fused[i].score = ExpectedScore(Key(fz.fused[i]))
        /\ fz.ensembleDone =>
              \A i \in 1..Len(fz.ensemble) :
                 fz.ensemble[i].fusedScore = ExpectedScore(Key(fz.ensemble[i].doc))

\* position at which a chunk is first met scanning the keyword list, then the semantic list
FirstSeen(key) == RankIn(fz.keyword \o fz.semantic, key)

OrderedByScoreThenFirstSeen(scores, keys) ==
    \A i, j \in 1..Len(scores) :
        i < j => /\ scores[i] >= scores[j]
                 /\ scores[i] = scores[j] => FirstSeen(keys[i]) < FirstSeen(keys[j])

\* C12: the fused output is ordered by non-increasing fused score, and chunks
\* of equal fused score appear in the order in which they were first met when
\* scanning the keyword list and then the semantic list.
C12_SortedByScoreTiesByFirstSeen ==
    /\ fz.fusedDone =>
          OrderedByScoreThenFirstSeen([i \in 1..Len(fz.fused) |-> fz.fused[i].score],
                                      [i \in 1..Len(fz.fused) |-> Key(fz.fused[i])])
    /\ fz.ensembleDone =>
          OrderedByScoreThenFirstSeen(
              [i \in 1..Len(fz.ensemble) |-> fz.ensemble[i].fusedScore],
              [i \in 1..Len(fz.ensemble) |-> Key(fz.ensemble[i].doc)])

\* both fusions have produced two chunks of equal score and a chunk of higher score
C12_Witness ==
    /\ fz.fusedDone /\ fz.ensembleDone
    /\ Len(fz.fused) = 3
    /\ fz.fused[1].score > fz.fused[2].score
    /\ fz.fused[2].score = fz.fused[3].score
    /\ fz.ensemble[2].fusedScore = fz.ensemble[3].fusedScore

(***************************************************************************)
(* hybridSearch: weights, bounds                                           *)
(***************************************************************************)
IdentitiesOf(list) == [i \in 1..Len(list) |-> Key(list[i])]

\* C13: every hybridSearch call fuses with exactly the keywordWeight and
\* semanticWeight of that call, whatever weights earlier calls on the same
\* engine used: the chunks returned are the first maxResults of the fusion of
\* the call's keyword and semantic candidates under the call's weights.
C13_FusesWithWeightsOfTheCall ==
    (last.op = "hybridSearch" /\ last.fused) =>
        /\ engine.obj.ensembleRetriever.weights = last.weights
        /\ IdentitiesOf(last.results)
              = IdentitiesOf(Take(EnsembleFuse(<<last.keyword, last.semantic>>, last.weights),
                                  last.k))

(***************************************************************************)
(* Repeated searches on one index                                          *)
(***************************************************************************)
\* what the engine object answers to a call, as chunk identities
KeywordAnswer(eng, query, k) == IdentitiesOf(keywordSearch(eng, query, k).results)

HybridAnswer(eng, query, maxResults, weights, mode) ==
    IdentitiesOf(hybridSearch(eng, vs, faiss, query, maxResults,
                              weights[1], weights[2], mode, mode).results)

\* C14: with the indexed corpus and the oracle's answers fixed, two calls of
\* keywordSearch (resp. hybridSearch) with the same query and options return
\* the same ordered chunk identities in every reachable state of that index:
\* no search call changes what a keywordSearch or hybridSearch call answers.
C14_SearchesLeaveAnswersUnchanged ==
    [][(last'.op \in {"keywordSearch", "semanticSearch", "hybridSearch"}
            /\ engine.obj.isIndexed) =>
          /\ \A query \in Queries, k \in SearchKs :
                KeywordAnswer(engine'.obj, query, k) = KeywordAnswer(engine.obj, query, k)
          /\ \A query \in Queries, maxResults \in MaxResultsChoices,
                weights \in SearchWeights, mode \in OracleModes :
                HybridAnswer(engine'.obj, query, maxResults, weights, mode)
                    = HybridAnswer(engine.obj, query, maxResults, weights, mode)]_vars

(***************************************************************************)
(* Overlapping calls: what a call in flight may observe.                   *)
(***************************************************************************)
KeywordCallsDone ==
    {c \in CallIds : calls[c].phase = "done" /\ calls[c].op = "keywordSearch"}

\* no buildIndex ran while the call was in flight
Undisturbed(c) == Cardinality(calls[c].versions) <= 1

\* C15: a keywordSearch(query, k) that overlapped only with other searches
\* returns at most k results, and exactly the list it returns when it runs
\* alone, whatever k or maxResults the overlapping calls were given.
C15_OverlappingSearchesDoNotInterfere ==
    \A c \in KeywordCallsDone :
        Undisturbed(c) =>
            /\ Len(calls[c].results) <= calls[c].k
            /\ calls[c].results = calls[c].alone

\* the whole keyword ranking of one index version for a query
RankingOfVersion(documents, query) ==
    Bm25GetRelevantDocuments([present |-> TRUE, documents |-> documents,
                              k |-> Len(documents)], query)

IsPrefix(s, t) == Len(s) <= Len(t) /\ s = SubSeq(t, 1, Len(s))

Retrieved(c) == calls[c].phase \in {"read", "done"} /\ calls[c].versions # {}

\* C16: whatever buildIndex/rebuildIndex runs while a keywordSearch or
\* hybridSearch is in flight, the keyword candidates of that search are the
\* head of the ranking of one index version among those the engine had
\* during the call: the one before a rebuild or the one after it, never a
\* mixture of the two.
C16_KeywordCandidatesFromOneVersion ==
    \A c \in CallIds :
        Retrieved(c) =>
            \E documents \in calls[c].versions :
                IsPrefix(calls[c].keyword, RankingOfVersion(documents, calls[c].query))

\* a search whose retriever ran after a buildIndex with another corpus, and
\* whose candidates tell the two versions apart
C16_Witness ==
    \E c \in CallIds :
        /\ Retrieved(c)
        /\ calls[c].keyword # <<>>
        /\ \E before, after \in calls[c].versions :
              /\ IsPrefix(calls[c].keyword, RankingOfVersion(before, calls[c].query))
              /\ ~IsPrefix(calls[c].keyword, RankingOfVersion(after, calls[c].query))

(***************************************************************************)
(* hybridSearch: size and origin of the results                            *)
(***************************************************************************)
Distinct(ids) == \A i, j \in 1..Len(ids) : ids[i] = ids[j] => i = j

\* C17: hybridSearch returns at most maxResults results, no chunk identity
\* twice, and every returned identity is one of the call's keyword
\* candidates or one of its semantic candidates.
C17_AtMostMaxResultsDistinctFromCandidates ==
    last.op = "hybridSearch" =>
        /\ Len(last.results) <= last.k
        /\ Distinct(IdentitiesOf(last.results))
        /\ Range(IdentitiesOf(last.results))
              \subseteq Range(IdentitiesOf(last.keyword)) \cup Range(IdentitiesOf(last.semantic))

(***************************************************************************)
(* hybridQuery: the response and the prompt                                *)
(***************************************************************************)
\* C18: a hybridQuery whose retrieval yields nothing answers, without
\* throwing, a response with sources = [], searchResults = [] and a
\* searchStats object whose three counts are 0.
C18_EmptyRetrievalAnswersWithZeroStats ==
    (rt.op = "hybridQuery" /\ rt.answer.retrieved = <<>>) =>
        /\ rt.response # "error"
        /\ rt.body.sources = <<>>
        /\ rt.body.searchResults = <<>>
        /\ rt.body.searchStats = SearchStats(0, 0, 0)

\* C19: when hybridQuery answers from at least one result that passed the
\* score filter, the prompt the model receives carries a context with one
\* labelled block per final result, in the order of the final results.
C19_PromptCarriesEveryFinalResult ==
    (rt.op = "hybridQuery" /\ rt.answer.prompt.called /\ rt.answer.finalResults # <<>>) =>
        LET final == rt.answer.finalResults
            context == rt.answer.prompt.context
        IN /\ rt.answer.prompt.hasContext
           /\ Len(context) = Len(final)
           /\ \A i \in 1..Len(final) :
                 /\ context[i].document = i
                 /\ context[i].content = final[i].content
                 /\ context[i].source = SourceOrUnknown(final[i])

(***************************************************************************)
(* Results and chunks with parts missing                                   *)
(***************************************************************************)
FormatOps == {"fuseResults", "formatContext", "formatHybridContext", "extractSources",
              "_buildIndex"}

\* C20: fuseResults, formatContext, formatHybridContext and extractSources
\* do not throw on results whose metadata object or metadata fields are
\* missing, and index building does not throw on chunks whose content is
\* empty or no string.
C20_MissingPartsNeverThrow ==
    last.op \in FormatOps => ~last.threw

(***************************************************************************)
(* extractSources: the groups                                              *)
(***************************************************************************)
Extracted == last.op = "extractSources" /\ ~last.threw

\* C21: whatever the order of the input, every group returned by
\* extractSources lists its chunks in ascending chunkIndex order.
C21_ChunksAscendingInEveryGroup ==
    Extracted =>
        \A g \in 1..Len(last.results) :
            \A i, j \in 1..Len(last.results[g].chunks) :
                i < j => last.results[g].chunks[i].chunkIndex
                            <= last.results[g].chunks[j].chunkIndex

\* two results of one source arrive with the higher chunkIndex first
C21_Witness ==
    /\ Extracted
    /\ \E i, j \in 1..Len(fz.keyword) :
          /\ i < j
          /\ SourceOrUnknown(fz.keyword[i]) = SourceOrUnknown(fz.keyword[j])
          /\ ChunkIndexOrZero(fz.keyword[i]) > ChunkIndexOrZero(fz.keyword[j])

\* the positions of the input at which a source occurs for the first time
FirstOfSource(input) ==
    SelectSeq([i \in 1..Len(input) |-> i],
              LAMBDA i : \A j \in 1..(i - 1) :
                            SourceOrUnknown(input[j]) # SourceOrUnknown(input[i]))

ChunkOf(result) ==
    [chunkIndex |-> ChunkIndexOrZero(result) + 1, score |-> result.score,
     content |-> result.content]

TimesIn(list, x) == Cardinality({i \in 1..Len(list) : list[i] = x})

\* C22: extractSources partitions its input: one group per distinct source,
\* groups in the order in which their source first occurs, each group with
\* the fileType and processedAt of that source's first result, and every
\* input result is exactly one chunk of the group of its source.
C22_GroupsPartitionTheInput ==
    Extracted =>
        LET input == fz.keyword
            first == FirstOfSource(input)
            groups == last.results
        IN /\ Len(groups) = Len(first)
           /\ \A n \in 1..Len(first) :
                 /\ groups[n].filename = SourceOrUnknown(input[first[n]])
                 /\ groups[n].fileType = FileTypeOrUnknown(input[first[n]])
                 /\ groups[n].processedAt = ProcessedAt(input[first[n]])
                 /\ LET mine == SelectSeq(input, LAMBDA r : SourceOrUnknown(r) = groups[n].filename)
                        chunks == [i \in 1..Len(mine) |-> ChunkOf(mine[i])]
                    IN /\ Len(groups[n].chunks) = Len(mine)
                       /\ \A i \in 1..Len(chunks) :
                             TimesIn(groups[n].chunks, chunks[i]) = TimesIn(chunks, chunks[i])

\* two groups, one of them with two results that differ in fileType and processedAt
C22_Witness ==
    /\ Extracted
    /\ Len(last.results) >= 2
    /\ \E i, j \in 1..Len(fz.keyword) :
          /\ i < j
          /\ SourceOrUnknown(fz.keyword[i]) = SourceOrUnknown(fz.keyword[j])
          /\ FileTypeOrUnknown(fz.keyword[i]) # FileTypeOrUnknown(fz.keyword[j])
          /\ ProcessedAt(fz.keyword[i]) # ProcessedAt(fz.keyword[j])

(***************************************************************************)
(* keywordSearch: what is returned and in which order                      *)
(***************************************************************************)
\* the relevance score of the corpus chunk at position p for the last query
Relevance(p) == Bm25Score(QueryTerms(last.query), p, engine.obj.bm25Retriever.documents)

\* the results are the corpus chunks at these positions, in this order
ReturnedFrom(pos) ==
    /\ \A i, j \in 1..Len(pos) : pos[i] = pos[j] => i = j
    /\ \A i \in 1..Len(pos) :
          /\ last.results[i].content = engine.obj.bm25Retriever.documents[pos[i]].content
          /\ last.results[i].metadata = engine.obj.bm25Retriever.documents[pos[i]].metadata

KeywordSearched == last.op = "keywordSearch" /\ last.indexed

\* C23: keywordSearch(query, k) on an INDEXED engine returns at most k
\* chunks of the corpus, each with a relevance score > 0 for the query, in
\* non-increasing order of relevance, equally relevant chunks in corpus order.
C23_KeywordResultsRelevantOrderedTruncated ==
    KeywordSearched =>
        /\ Len(last.results) <= last.k
        /\ \E pos \in [1..Len(last.results) -> 1..Len(engine.obj.bm25Retriever.documents)] :
              /\ ReturnedFrom(pos)
              /\ \A i \in 1..Len(pos) : Relevance(pos[i]) > 0
              /\ \A i, j \in 1..Len(pos) :
                    i < j => \/ Relevance(pos[i]) > Relevance(pos[j])
                             \/ Relevance(pos[i]) = Relevance(pos[j]) /\ pos[i] < pos[j]

\* two equally relevant chunks are returned and a chunk without a query term is left out
C23_Witness ==
    /\ KeywordSearched
    /\ Len(last.results) >= 2
    /\ \E p, q, z \in 1..Len(engine.obj.bm25Retriever.documents) :
          /\ p < q
          /\ Relevance(p) = Relevance(q)
          /\ Relevance(p) > 0
          /\ Relevance(z) = 0

(***************************************************************************)
(* Fusion: a chunk in both lists                                           *)
(***************************************************************************)
\* what the occurrences of a chunk in one list add to its fused score
RECURSIVE ListContribution(_, _, _, _)
ListContribution(list, weight, key, i) ==
    IF i > Len(list) THEN 0
    ELSE (IF Key(list[i]) = key THEN Contribution(weight, i) ELSE 0)
         + ListContribution(list, weight, key, i + 1)

InBothLists == KeysOf(fz.keyword) \cap KeysOf(fz.semantic)

EnsembleScoreOf(key) ==
    fz.ensemble[CHOOSE i \in 1..Len(fz.ensemble) : Key(fz.ensemble[i].doc) = key].fusedScore

AboveEitherList(score, key) ==
    /\ score > ListContribution(fz.keyword, fz.keywordWeight, key, 1)
    /\ score > ListContribution(fz.semantic, fz.semanticWeight, key, 1)

RECURSIVE FirstOccurrences(_, _, _)
FirstOccurrences(list, i, seen) ==
    IF i > Len(list) THEN seen
    ELSE FirstOccurrences(list, i + 1,
                          IF \E j \in 1..Len(seen) : seen[j] = Key(list[i])
                          THEN seen ELSE Append(seen, Key(list[i])))

\* fuseResults has run on the keyword list with weight 1.0 against an empty list
FusedAlone ==
    /\ fz.fusedDone
    /\ fz.keywordWeight = 10
    /\ fz.semantic = <<>>
    /\ fz.keyword # <<>>

FusedReproducesKeywordList ==
    /\ [i \in 1..Len(fz.fused) |-> Key(fz.fused[i])] = FirstOccurrences(fz.keyword, 1, <<>>)
    /\ \A i \in 1..(Len(fz.fused) - 1) : fz.fused[i].score > fz.fused[i + 1].score

\* C25: fusing one ranked list with weight 1.0 against an empty second list
\* returns the chunks of that list in the same relative order, with fused
\* scores strictly decreasing along the output.
C25_FusionIdentity == FusedAlone => FusedReproducesKeywordList

(***************************************************************************)
(* The engine's lifecycle                                                  *)
(***************************************************************************)
EngineOperations ==
    {"buildIndex", "rebuildIndex", "getIndexStats",
     "keywordSearch", "semanticSearch", "hybridSearch"}

\* C26: isIndexed is false at construction, becomes true only in a buildIndex
\* call (made directly or by rebuildIndex) that does not throw, and no
\* buildIndex, rebuildIndex, search or getIndexStats call sets it back to
\* false; rebuildIndex on an INDEXED engine leaves it INDEXED over the same
\* documents.
C26_IndexedOnlyBySuccessfulBuildAndNeverUnset ==
    [][/\ \A vectorStore \in {0, Wrapper} : ~NewEngine(vectorStore).isIndexed
       /\ last'.op \in EngineOperations =>
             /\ engine.obj.isIndexed => engine'.obj.isIndexed
             /\ (~engine.obj.isIndexed /\ engine'.obj.isIndexed) =>
                   (last'.op \in {"buildIndex", "rebuildIndex"} /\ ~last'.threw)
             /\ (last'.op = "rebuildIndex" /\ engine.obj.isIndexed) =>
                   /\ engine'.obj.documents = engine.obj.documents
                   /\ engine'.obj.bm25Retriever.documents = engine.obj.documents
             /\ last'.op = "getIndexStats" =>
                   (engine' = engine /\ last'.stats.isIndexed = engine.obj.isIndexed)]_vars

\* rebuildIndex has completed on an INDEXED engine that holds documents
C26_Witness ==
    /\ last.op = "rebuildIndex"
    /\ last.indexed
    /\ ~last.threw
    /\ engine.obj.isIndexed
    /\ Len(engine.obj.documents) > 0

(***************************************************************************)
(* The score of a hybrid search result                                     *)
(***************************************************************************)
\* the ensemble's fused list for the last hybridSearch, scores kept, in the
\* unit 1 / (10 * RRFScale)
LastFused == EnsembleScored(<<last.keyword, last.semantic>>, engine.obj.ensembleRetriever.weights)

\* score = fusedScore / (10 * RRFScale), without leaving 32 bits
IsFusedScore(score, fusedScore) ==
    /\ (fusedScore * score.den) % 10 = 0
    /\ (fusedScore * score.den) \div 10 = RRFScale * score.num

HybridFused ==
    /\ last.op = "hybridSearch"
    /\ last.fused
    /\ last.results # <<>>

\* C27: every result hybridSearch returns from the fused list carries as its
\* score the fused RRF score of its chunk, the sum of its weight / (60 + rank)
\* contributions.
C27_HybridScoreIsFusedScore ==
    HybridFused =>
        \A i \in 1..Len(last.results) :
            IsFusedScore(last.results[i].score, LastFused[i].fusedScore)

(***************************************************************************)
(* The classifier's answer for every string question                       *)
(***************************************************************************)
\* the classification chain was invoked and returned a text
AtModelStage ==
    /\ ~MatchesPattern(rt.question)
    /\ ~rt.chain.threw

CleanedReply ==
    LET t == Trim(rt.chain.text)
    IN [i \in 1..Len(t) |-> UpperCase(t[i])]

\* C28: for every string question and every behaviour of the classification
\* oracle, classifyQuestion returns DIRECT or SEARCH and does not throw; when
\* the oracle is asked and answers, the decision is DIRECT if the trimmed,
\* upper-cased reply contains DIRECT, and SEARCH if it contains SEARCH and
\* does not contain DIRECT.
C28_AlwaysDirectOrSearch ==
    (rt.op = "classifyQuestion" /\ rt.question # NotAString) =>
        /\ ~rt.classifyThrew
        /\ rt.classification \in {"DIRECT", "SEARCH"}
        /\ AtModelStage =>
              /\ Includes(CleanedReply, "DIRECT") => rt.classification = "DIRECT"
              /\ (Includes(CleanedReply, "SEARCH") /\ ~Includes(CleanedReply, "DIRECT"))
                    => rt.classification = "SEARCH"

\* the oracle's reply holds both words and the decision is DIRECT
C28_Witness ==
    /\ rt.op = "classifyQuestion"
    /\ rt.question = <<"Apples", "?">>
    /\ rt.chain = ChainReturns(<<"Search", " ", "DIRECT">>)
    /\ rt.classification = "DIRECT"
    /\ ~rt.classifyThrew

(***************************************************************************)
(* The engine that answers hybridQuery, after an upload                    *)
(***************************************************************************)
\* C29: after addDocuments has succeeded for a non-empty batch, the engine
\* that QueryEngine.hybridQuery searches is INDEXED and its keyword index
\* contains the uploaded chunks.
C29_UploadIndexesTheQueryEngine ==
    (/\ engine.owner = "qe"
     /\ last.op = "addDocuments" /\ ~last.threw
     /\ last.documents # <<>>) =>
        /\ engine.obj.isIndexed
        /\ Range(last.documents) \subseteq Range(engine.obj.bm25Retriever.documents)

(***************************************************************************)
(* documentsCount against the store, under overlapping calls               *)
(***************************************************************************)
RealChunksHeld == IF vs.vectorStore = 0 THEN 0 ELSE RealCount(faiss[vs.vectorStore])

\* C30: for any interleaving of addDocuments and clear calls, failing ones
\* included, whenever no call is in flight documentsCount is the number of
\* real (non-dummy) chunks of the current FaissStore; it is 0 when the call
\* that finished last is a clear.
C30_CountMatchesStoreWhenQuiet ==
    NoneInFlight =>
        /\ vs.documentsCount = RealChunksHeld
        /\ last.op = "clear" => vs.documentsCount = 0

====
